---------------------------- MODULE Spec2Model ----------------------------
(***************************************************************************)
(* Model of the admissions-report generator: the tabular transform         *)
(* pipeline of report_processor/data_handler.py (clean, pivot, custom      *)
(* sort, subtotal, grand total, raw-data selection), the Tableau REST     *)
(* client of tableau_connector/client.py (session state, retrying HTTP     *)
(* layer), and the workflow of main.py with the report assembly loop of    *)
(* data_handler.py (discovery, one sheet per view, save, format, email,    *)
(* sign-out).                                                              *)
(*                                                                         *)
(* Python strings are sequences of one-character strings, so that strip,   *)
(* lower, upper, split, int() and the numeric parse are computed and not   *)
(* assumed.  A DataFrame cell is a record [t, s, n]: t = "str" with text   *)
(* s, t = "int" with value n, or t = "nan" (pandas' missing value).        *)
(***************************************************************************)
EXTENDS Integers, Sequences, FiniteSets, TLC

VARIABLES
    df_raw,        \* the DataFrame handed to a transform (df_raw)
    report,        \* which transform ran: "none", "progress", "admit"
    df_cleaned,    \* result of _clean_dataframe
    df_pivoted,    \* result of _pivot_dataframe
    df_sorted,     \* pivot_df after the custom sort (line 126-129)
    final_df,      \* what the transform returned
    raised,        \* TRUE when the transform raised instead of returning
    auth_token,    \* TableauClient.auth_token
    site_id,       \* TableauClient.site_id
    user_id,       \* TableauClient.user_id
    call,          \* the client method in progress, "none" when idle
    attempts,      \* HTTP attempts made so far for the request in flight
    retry_total,   \* urllib3 Retry.total still left for the request in flight
    forced,        \* attempts of this request answered by a status_forcelist status
    authed,        \* TRUE once an authenticate call has returned normally
    last,          \* how the last finished client call ended
    routed_view,   \* the view generate_excel_sheets_from_views routed, NoView before
    written_sheet, \* the sheet written for it: its label and its table
    term_words,    \* the words of the term handed to get_sort_keys
    term_str,      \* the term cell itself
    sort_keys,     \* what get_sort_keys returned, NoKeys before the call
    raw_source,    \* the frame handed to process_raw_data_applicant_download
    raw_result,    \* what it returned
    raw_called,    \* TRUE once it has been called
    pc,            \* position of run_reporting_workflow (main.py)
    tableau_client,       \* main.py lines 49, 54: TRUE once the client is constructed
    client_calls,  \* the client methods the workflow has invoked, in order
    requests,      \* the requests the workflow has sent, in order
    all_workbooks, \* the workbook list of the last get_workbooks_for_user response
    matching_workbooks,   \* what find_matching_workbooks returned, {} before it has
    target_workbook_id,   \* main.py line 77
    all_views,     \* the view list of the last get_views_for_workbook response
    views_to_fetch,       \* what find_matching_views returned
    next_view,     \* index of the view generate_excel_sheets_from_views is at
    sheets,        \* the sheets written to the ExcelWriter, in order
    file_written,  \* TRUE once the ExcelWriter has saved the workbook
    formatted,     \* TRUE once format_excel_workbook has returned
    emailed,       \* "no", "sent", "failed" or "skipped"
    run_error      \* the except clause of main.py that caught, "none" if none

rawVars == <<raw_source, raw_result, raw_called>>
asmVars == <<routed_view, written_sheet>>
keyVars == <<term_words, term_str, sort_keys>>
frameVars == <<df_raw, report, df_cleaned, df_pivoted, df_sorted, final_df, raised>>
pipeVars == <<frameVars, rawVars, asmVars, keyVars>>
clientVars == <<auth_token, site_id, user_id, call, attempts, retry_total, forced, authed, last>>
runVars ==
    <<pc, tableau_client, client_calls, requests, all_workbooks, matching_workbooks, target_workbook_id, all_views,
      views_to_fetch, next_view, sheets, file_written,
      formatted, emailed, run_error>>
vars == <<pipeVars, clientVars, runVars>>

-----------------------------------------------------------------------------
(* Strings *)

\* Column names of config/settings.py, as character sequences.
Application_Term == <<"A", "p", "p", "l", "i", "c", "a", "t", "i", "o", "n", " ", "T", "e", "r", "m">>
Program == <<"P", "r", "o", "g", "r", "a", "m">>
CURRICULUM == <<"C", "U", "R", "R", "I", "C", "U", "L", "U", "M">>
DEGREE == <<"D", "E", "G", "R", "E", "E">>
Measure_Names == <<"M", "e", "a", "s", "u", "r", "e", " ", "N", "a", "m", "e", "s">>
Measure_Values == <<"M", "e", "a", "s", "u", "r", "e", " ", "V", "a", "l", "u", "e", "s">>
ApplicationTerm_Order == <<"A", "p", "p", "l", "i", "c", "a", "t", "i", "o", "n", "T", "e", "r", "m", " ", "O", "r", "d", "e", "r">>
Submitted_Applicants == <<"S", "u", "b", "m", "i", "t", "t", "e", "d", " ", "A", "p", "p", "l", "i", "c", "a", "n", "t", "s">>
Qualified_Applicants == <<"Q", "u", "a", "l", "i", "f", "i", "e", "d", " ", "A", "p", "p", "l", "i", "c", "a", "n", "t", "s">>
Admitted_Applicants == <<"A", "d", "m", "i", "t", "t", "e", "d", " ", "A", "p", "p", "l", "i", "c", "a", "n", "t", "s">>
Wait_Listed == <<"W", "a", "i", "t", " ", "L", "i", "s", "t", "e", "d">>
Deposited == <<"D", "e", "p", "o", "s", "i", "t", "e", "d">>
Enrolled == <<"E", "n", "r", "o", "l", "l", "e", "d">>
Admitted_and_Deposited == <<"A", "d", "m", "i", "t", "t", "e", "d", " ", "a", "n", "d", " ", "D", "e", "p", "o", "s", "i", "t", "e", "d">>
Admitted_with_Deposit_Deferred == <<"A", "d", "m", "i", "t", "t", "e", "d", " ", "w", "i", "t", "h", " ", "D", "e", "p", "o", "s", "i", "t", ",", " ", "D", "e", "f", "e", "r", "r", "e", "d", " ", "t", "o", " ", "F", "u", "t", "u", "r", "e", " ", "T", "e", "r", "m">>
Admitted_Without_Deposit == <<"A", "d", "m", "i", "t", "t", "e", "d", " ", "W", "i", "t", "h", "o", "u", "t", " ", "D", "e", "p", "o", "s", "i", "t">>
Admitted_Not_Coming_After_Deposit == <<"A", "d", "m", "i", "t", "t", "e", "d", ",", " ", "N", "o", "t", " ", "C", "o", "m", "i", "n", "g", " ", "A", "f", "t", "e", "r", " ", "D", "e", "p", "o", "s", "i", "t">>
Admitted_Not_Coming_No_Deposit == <<"A", "d", "m", "i", "t", "t", "e", "d", ",", " ", "N", "o", "t", " ", "C", "o", "m", "i", "n", "g", ",", " ", "N", "o", " ", "D", "e", "p", "o", "s", "i", "t">>
Withdrawn_Before_Decision == <<"W", "i", "t", "h", "d", "r", "a", "w", "n", " ", "B", "e", "f", "o", "r", "e", " ", "D", "e", "c", "i", "s", "i", "o", "n">>
Withdrawn_After_Registration == <<"W", "i", "t", "h", "d", "r", "a", "w", "n", " ", "A", "f", "t", "e", "r", " ", "R", "e", "g", "i", "s", "t", "r", "a", "t", "i", "o", "n">>
Under_Review_In_Process == <<"U", "n", "d", "e", "r", " ", "A", "d", "m", "i", "s", "s", "i", "o", "n", "+", "F", "a", "c", "u", "l", "t", "y", " ", "R", "e", "v", "i", "e", "w", "/", "I", "n", " ", "P", "r", "o", "c", "e", "s", "s">>

\* String literals of report_processor/data_handler.py.
Total == <<"T", "o", "t", "a", "l">>
Grand_Total == <<"G", "r", "a", "n", "d", " ", "T", "o", "t", "a", "l">>
SPRING == <<"S", "P", "R", "I", "N", "G">>
SUMMER == <<"S", "U", "M", "M", "E", "R">>
FALL == <<"F", "A", "L", "L">>

\* Cell texts used as inputs.
FALL_2025 == <<"F", "A", "L", "L", " ", "2", "0", "2", "5">>
SPRING_2026 == <<"S", "P", "R", "I", "N", "G", " ", "2", "0", "2", "6">>
SUMMER_2025 == <<"S", "U", "M", "M", "E", "R", " ", "2", "0", "2", "5">>
SPRING_2025 == <<"S", "P", "R", "I", "N", "G", " ", "2", "0", "2", "5">>
WINTER_2025 == <<"W", "I", "N", "T", "E", "R", " ", "2", "0", "2", "5">>
Blank == <<" ", " ">>
Prog_A == <<"A">>
Prog_B == <<"B">>
Prog_all == <<" ", "A", "L", "L", " ">>
Curr_CS == <<"C", "S">>
Deg_MS == <<"M", "S">>
Other_Measure == <<"O", "t", "h", "e", "r", " ", "M", "e", "a", "s", "u", "r", "e">>
Extra_Column == <<"E", "x", "t", "r", "a", " ", "C", "o", "l", "u", "m", "n">>
Txt_1234 == <<"1", ",", "2", "3", "4">>
Txt_12 == <<"1", ",", "2">>
Txt_NA == <<"N", "/", "A">>
Txt_7 == <<"7">>
Txt_minus3 == <<"-", "3">>

-----------------------------------------------------------------------------
(* Python str operations, character by character *)

\* The characters that occur, in code-point order (Python compares str by code point).
CodePoints == <<" ", "+", ",", "-", "/",
                "0", "1", "2", "3", "4", "5", "6", "7", "8", "9",
                "A", "B", "C", "D", "E", "F", "G", "H", "I", "J", "K", "L", "M",
                "N", "O", "P", "Q", "R", "S", "T", "U", "V", "W", "X", "Y", "Z",
                "a", "b", "c", "d", "e", "f", "g", "h", "i", "j", "k", "l", "m",
                "n", "o", "p", "q", "r", "s", "t", "u", "v", "w", "x", "y", "z">>

\* ord(c), up to a constant: the position of c in CodePoints
OrdTable == [c \in {CodePoints[i] : i \in 1..Len(CodePoints)} |->
                CHOOSE i \in 1..Len(CodePoints) : CodePoints[i] = c]
Ord(c) == OrdTable[c]

FirstUpper == Ord("A")
FirstLower == Ord("a")
FirstDigit == Ord("0")

IsUpperChar(c) == Ord(c) >= FirstUpper /\ Ord(c) < FirstUpper + 26
IsLowerChar(c) == Ord(c) >= FirstLower /\ Ord(c) < FirstLower + 26
IsDigit(c) == Ord(c) >= FirstDigit /\ Ord(c) < FirstDigit + 10
DigitVal(c) == Ord(c) - FirstDigit
IsSpace(c) == c = " "

LowerTable == [c \in DOMAIN OrdTable |->
                  IF IsUpperChar(c) THEN CodePoints[Ord(c) - FirstUpper + FirstLower] ELSE c]
UpperTable == [c \in DOMAIN OrdTable |->
                  IF IsLowerChar(c) THEN CodePoints[Ord(c) - FirstLower + FirstUpper] ELSE c]
LowerChar(c) == LowerTable[c]
UpperChar(c) == UpperTable[c]

\* str.lower() and str.upper()
Lower(s) == [i \in 1..Len(s) |-> LowerChar(s[i])]
Upper(s) == [i \in 1..Len(s) |-> UpperChar(s[i])]

\* str.strip(): leading and trailing whitespace removed
RECURSIVE LStrip(_)
LStrip(s) == IF s # <<>> /\ IsSpace(Head(s)) THEN LStrip(Tail(s)) ELSE s
RECURSIVE RStrip(_)
RStrip(s) == IF s # <<>> /\ IsSpace(s[Len(s)]) THEN RStrip(SubSeq(s, 1, Len(s) - 1)) ELSE s
Strip(s) == RStrip(LStrip(s))

\* str.split(): the maximal runs of non-whitespace characters
RECURSIVE SplitFrom(_, _, _)
SplitFrom(s, word, acc) ==
    IF s = <<>> THEN (IF word = <<>> THEN acc ELSE Append(acc, word))
    ELSE IF IsSpace(Head(s))
         THEN SplitFrom(Tail(s), <<>>, IF word = <<>> THEN acc ELSE Append(acc, word))
         ELSE SplitFrom(Tail(s), Append(word, Head(s)), acc)
Split(s) == SplitFrom(s, <<>>, <<>>)

\* str.replace(',', '')
RECURSIVE RemoveCommas(_)
RemoveCommas(s) ==
    IF s = <<>> THEN <<>>
    ELSE IF Head(s) = "," THEN RemoveCommas(Tail(s))
         ELSE <<Head(s)>> \o RemoveCommas(Tail(s))

\* value of a non-empty run of decimal digits
RECURSIVE DigitsValue(_, _)
DigitsValue(s, acc) ==
    IF s = <<>> THEN acc ELSE DigitsValue(Tail(s), 10 * acc + DigitVal(Head(s)))

AllDigits(s) == s # <<>> /\ \A i \in 1..Len(s) : IsDigit(s[i])

\* An optionally signed decimal integer literal, surrounding whitespace allowed:
\* what int(str) and pd.to_numeric accept among the texts over CodePoints.
IsIntLiteral(s) ==
    LET b == Strip(s)
    IN  /\ b # <<>>
        /\ IF Head(b) \in {"+", "-"} THEN AllDigits(Tail(b)) ELSE AllDigits(b)

IntLiteralValue(s) ==
    LET b == Strip(s)
    IN  IF Head(b) = "-" THEN 0 - DigitsValue(Tail(b), 0)
        ELSE IF Head(b) = "+" THEN DigitsValue(Tail(b), 0)
        ELSE DigitsValue(b, 0)

\* str(n) for an integer n
RECURSIVE NatDigits(_)
NatDigits(n) ==
    IF n < 10 THEN <<CodePoints[FirstDigit + n]>>
    ELSE NatDigits(n \div 10) \o <<CodePoints[FirstDigit + (n % 10)]>>
IntToStr(n) == IF n < 0 THEN <<"-">> \o NatDigits(0 - n) ELSE NatDigits(n)

\* a < b for Python str
RECURSIVE StrLess(_, _)
StrLess(a, b) ==
    IF b = <<>> THEN FALSE
    ELSE IF a = <<>> THEN TRUE
    ELSE IF Head(a) = Head(b) THEN StrLess(Tail(a), Tail(b))
    ELSE Ord(Head(a)) < Ord(Head(b))

-----------------------------------------------------------------------------
(* DataFrame cells and frames *)

S(s) == [t |-> "str", s |-> s, n |-> 0]
I(n) == [t |-> "int", s |-> <<>>, n |-> n]
NaN == [t |-> "nan", s |-> <<>>, n |-> 0]
Inf == [t |-> "inf", s |-> <<>>, n |-> 0]      \* float('inf'), a sort key only

\* pd.isna(cell)
IsNa(c) == c.t = "nan"

\* Series.astype(str) on one cell
AsStr(c) ==
    IF c.t = "str" THEN c.s
    ELSE IF c.t = "int" THEN IntToStr(c.n)
    ELSE <<"n", "a", "n">>

InSeq(x, s) == \E i \in 1..Len(s) : s[i] = x

\* A frame is [columns |-> sequence of names, rows |-> sequence of rows], a row
\* being the sequence of its cells in the order of the columns.
Frame(cols, rows) == [columns |-> cols, rows |-> rows]

\* position of a column the frame has
ColPos(cols, c) == CHOOSE i \in 1..Len(cols) : cols[i] = c

\* row[c] for a row r of frame df
Cell(df, r, c) == r[ColPos(df.columns, c)]

\* pd.DataFrame(columns=cols) and pd.DataFrame()
EmptyFrame(cols) == Frame(cols, <<>>)

\* DataFrame.empty: some axis has length 0
IsEmpty(df) == Len(df.columns) = 0 \/ Len(df.rows) = 0

\* df.drop(columns=cols)
DropColumns(df, cols) ==
    LET keep == SelectSeq(df.columns, LAMBDA c : ~InSeq(c, cols))
    IN  Frame(keep, [i \in 1..Len(df.rows) |->
                        [j \in 1..Len(keep) |-> Cell(df, df.rows[i], keep[j])]])

\* df[col] = value, for a column the frame does not have yet
AddColumn(df, col, value) ==
    Frame(Append(df.columns, col),
          [i \in 1..Len(df.rows) |-> Append(df.rows[i], value)])

\* a reindex that leaves the frame's own columns in place
Reindex_KeepColumns(df, cols, fill) == df

\* df.reindex(columns=cols, fill_value=fill): exactly cols, in that order
Reindex(df, cols, fill) ==
    Frame(cols,
          [i \in 1..Len(df.rows) |->
              [j \in 1..Len(cols) |->
                  IF InSeq(cols[j], df.columns) THEN Cell(df, df.rows[i], cols[j])
                  ELSE fill]])

\* Order of cells under sort_values / sort_index: numbers by value, text by
\* code point, float('inf') after every number, missing values last.
CellLess(a, b) ==
    IF a.t = "nan" \/ b.t = "nan" THEN a.t # "nan" /\ b.t = "nan"
    ELSE IF a.t = "inf" \/ b.t = "inf" THEN a.t # "inf" /\ b.t = "inf"
    ELSE IF a.t = "int" /\ b.t = "int" THEN a.n < b.n
    ELSE IF a.t = "str" /\ b.t = "str" THEN StrLess(a.s, b.s)
    ELSE FALSE

\* lexicographic order of key tuples of equal length
RECURSIVE KeyLess(_, _)
KeyLess(k1, k2) ==
    IF k1 = <<>> THEN FALSE
    ELSE IF CellLess(Head(k1), Head(k2)) THEN TRUE
    ELSE IF CellLess(Head(k2), Head(k1)) THEN FALSE
    ELSE KeyLess(Tail(k1), Tail(k2))

\* Stable sort of [key, row] items by key (np.lexsort is stable).
RECURSIVE InsertByKey(_, _)
InsertByKey(x, s) ==
    IF s = <<>> THEN <<x>>
    ELSE IF KeyLess(x.key, Head(s).key) THEN <<x>> \o s
    ELSE <<Head(s)>> \o InsertByKey(x, Tail(s))
RECURSIVE SortByKey(_)
SortByKey(items) ==
    IF items = <<>> THEN <<>>
    ELSE InsertByKey(items[Len(items)], SortByKey(SubSeq(items, 1, Len(items) - 1)))

\* Series.sum() of an integer column
RECURSIVE SumInts(_)
SumInts(cells) == IF cells = <<>> THEN 0 ELSE Head(cells).n + SumInts(Tail(cells))
ColumnSum(df, rows, col) == SumInts([i \in 1..Len(rows) |-> Cell(df, rows[i], col)])

-----------------------------------------------------------------------------
(* config/settings.py: the two report specifications *)

PROGRESS_REPORT_DROP_COLUMNS == <<ApplicationTerm_Order>>
PROGRESS_REPORT_REMOVE_ROW_IF_CONTAINS_STRING == <<"A", "l", "l">>
PROGRESS_REPORT_PIVOT_INDEX_COLUMNS == <<Application_Term, Program, CURRICULUM, DEGREE>>
PROGRESS_REPORT_PIVOT_AGG_COLUMN == Measure_Names
PROGRESS_REPORT_PIVOT_VALUES_COLUMN == Measure_Values
PROGRESS_REPORT_NUMERIC_COLUMNS_FOR_INT_CONVERSION ==
    <<Submitted_Applicants, Qualified_Applicants, Admitted_Applicants,
      Wait_Listed, Deposited, Enrolled>>
PROGRESS_REPORT_FINAL_COLUMN_ORDER ==
    <<Application_Term, Program, CURRICULUM, DEGREE,
      Submitted_Applicants, Qualified_Applicants, Admitted_Applicants,
      Wait_Listed, Deposited, Enrolled>>
PROGRESS_REPORT_SUBTOTAL_COLUMNS_TO_AGGREGATE ==
    PROGRESS_REPORT_NUMERIC_COLUMNS_FOR_INT_CONVERSION

ADMIT_BREAKDOWN_DROP_COLUMNS == <<ApplicationTerm_Order>>
ADMIT_BREAKDOWN_REMOVE_ROW_IF_CONTAINS_STRING == <<"A", "l", "l">>
ADMIT_BREAKDOWN_PIVOT_INDEX_COLUMNS == <<Application_Term, Program, CURRICULUM, DEGREE>>
ADMIT_BREAKDOWN_PIVOT_AGG_COLUMN == Measure_Names
ADMIT_BREAKDOWN_PIVOT_VALUES_COLUMN == Measure_Values
ADMIT_BREAKDOWN_NUMERIC_COLUMNS_FOR_INT_CONVERSION ==
    <<Submitted_Applicants, Admitted_and_Deposited, Admitted_with_Deposit_Deferred,
      Admitted_Without_Deposit, Admitted_Not_Coming_After_Deposit,
      Admitted_Not_Coming_No_Deposit, Withdrawn_Before_Decision,
      Withdrawn_After_Registration, Under_Review_In_Process>>
ADMIT_BREAKDOWN_FINAL_COLUMN_ORDER ==
    <<Application_Term, Program, CURRICULUM, DEGREE>>
        \o ADMIT_BREAKDOWN_NUMERIC_COLUMNS_FOR_INT_CONVERSION
ADMIT_BREAKDOWN_SUBTOTAL_COLUMNS_TO_AGGREGATE ==
    ADMIT_BREAKDOWN_NUMERIC_COLUMNS_FOR_INT_CONVERSION

\* The arguments process_progress_report_data passes to the three stages.
ProgressSettings ==
    [drop_cols |-> PROGRESS_REPORT_DROP_COLUMNS,
     remove_row_string |-> PROGRESS_REPORT_REMOVE_ROW_IF_CONTAINS_STRING,
     index_cols |-> PROGRESS_REPORT_PIVOT_INDEX_COLUMNS,
     agg_col |-> PROGRESS_REPORT_PIVOT_AGG_COLUMN,
     values_col |-> PROGRESS_REPORT_PIVOT_VALUES_COLUMN,
     final_col_order |-> PROGRESS_REPORT_FINAL_COLUMN_ORDER,
     numeric_cols |-> PROGRESS_REPORT_NUMERIC_COLUMNS_FOR_INT_CONVERSION,
     subtotal_cols |-> PROGRESS_REPORT_SUBTOTAL_COLUMNS_TO_AGGREGATE]

\* The arguments process_admit_breakdown_data passes to the three stages.
AdmitSettings ==
    [drop_cols |-> ADMIT_BREAKDOWN_DROP_COLUMNS,
     remove_row_string |-> ADMIT_BREAKDOWN_REMOVE_ROW_IF_CONTAINS_STRING,
     index_cols |-> ADMIT_BREAKDOWN_PIVOT_INDEX_COLUMNS,
     agg_col |-> ADMIT_BREAKDOWN_PIVOT_AGG_COLUMN,
     values_col |-> ADMIT_BREAKDOWN_PIVOT_VALUES_COLUMN,
     final_col_order |-> ADMIT_BREAKDOWN_FINAL_COLUMN_ORDER,
     numeric_cols |-> ADMIT_BREAKDOWN_NUMERIC_COLUMNS_FOR_INT_CONVERSION,
     subtotal_cols |-> ADMIT_BREAKDOWN_SUBTOTAL_COLUMNS_TO_AGGREGATE]

-----------------------------------------------------------------------------
(* Stage A: _clean_dataframe *)

\* the row filter without the strip of the cell text
RowMatches_Unstripped(df, r, target) ==
    \E i \in 1..Len(r) : Lower(AsStr(r[i])) = target

\* the row filter of lines 30-33: some cell, as text, stripped and lower-cased,
\* equals the target
RowMatches(df, r, target) ==
    \E i \in 1..Len(r) : Lower(Strip(AsStr(r[i]))) = target

_clean_dataframe(df, drop_cols, remove_row_string) ==
    LET cols_to_drop_existing == SelectSeq(drop_cols, LAMBDA c : InSeq(c, df.columns))
        dropped == IF cols_to_drop_existing # <<>>
                   THEN DropColumns(df, cols_to_drop_existing) ELSE df
        target_string_lower_stripped == Strip(Lower(remove_row_string))
    IN  IF remove_row_string # <<>>
        THEN Frame(dropped.columns,
                   SelectSeq(dropped.rows,
                             LAMBDA r : ~RowMatches(dropped, r, target_string_lower_stripped)))
        ELSE dropped

-----------------------------------------------------------------------------
(* Stage B: _pivot_dataframe *)

\* distinct elements of a sequence, in order of first appearance
RECURSIVE Distinct(_)
Distinct(s) ==
    IF s = <<>> THEN <<>>
    ELSE LET d == Distinct(SubSeq(s, 1, Len(s) - 1))
         IN  IF InSeq(s[Len(s)], d) THEN d ELSE Append(d, s[Len(s)])

RowKey(df, r, cols) == [i \in 1..Len(cols) |-> Cell(df, r, cols[i])]

\* sorted distinct key tuples of rows
SortedKeys(df, rows, cols) ==
    LET ks == Distinct([i \in 1..Len(rows) |-> RowKey(df, rows[i], cols)])
        sorted == SortByKey([i \in 1..Len(ks) |-> [key |-> ks[i], row |-> ks[i]]])
    IN  [i \in 1..Len(sorted) |-> sorted[i].key]

RECURSIVE ConcatAll(_)
ConcatAll(cells) == IF cells = <<>> THEN <<>> ELSE Head(cells).s \o ConcatAll(Tail(cells))

TypeError == [t |-> "err", s |-> <<>>, n |-> 0]

\* aggfunc="sum" over the value cells of one group: missing values are skipped,
\* integers add, str values concatenate (Python +), int + str is a TypeError
AggSum(cells) ==
    LET vals == SelectSeq(cells, LAMBDA c : ~IsNa(c))
    IN  IF \A i \in 1..Len(vals) : vals[i].t = "int" THEN I(SumInts(vals))
        ELSE IF \A i \in 1..Len(vals) : vals[i].t = "str" THEN S(ConcatAll(vals))
        ELSE TypeError

\* df.pivot_table(index, columns, values, aggfunc="sum", fill_value=0).reset_index():
\* rows with a missing index or category cell are left out (groupby dropna), one
\* output row per distinct index tuple in sorted order, one column per distinct
\* category in sorted order, absent combinations filled with 0
PivotTable(df, index_cols, agg_col, values_col) ==
    LET keyed == SelectSeq(df.rows,
                           LAMBDA r : /\ \A i \in 1..Len(index_cols) :
                                            ~IsNa(Cell(df, r, index_cols[i]))
                                      /\ ~IsNa(Cell(df, r, agg_col)))
        idx == SortedKeys(df, keyed, index_cols)
        catKeys == SortedKeys(df, keyed, <<agg_col>>)
        cats == [i \in 1..Len(catKeys) |-> catKeys[i][1].s]
        group(k, cat) == SelectSeq(keyed,
                                   LAMBDA r : /\ RowKey(df, r, index_cols) = k
                                              /\ Cell(df, r, agg_col).s = cat)
        value(k, cat) == LET g == group(k, cat)
                         IN  IF g = <<>> THEN I(0)
                             ELSE AggSum([j \in 1..Len(g) |-> Cell(df, g[j], values_col)])
    IN  Frame(index_cols \o cats,
              [i \in 1..Len(idx) |->
                  idx[i] \o [j \in 1..Len(cats) |-> value(idx[i], cats[j])]])
\* the conversion without the removal of the thousands separators
ToInt_KeepCommas(c) ==
    IF c.t = "int" THEN c
    ELSE IF c.t = "nan" THEN I(0)
    ELSE IF IsIntLiteral(c.s) THEN I(IntLiteralValue(c.s)) ELSE I(0)

\* pd.to_numeric(astype(str) without commas, errors='coerce').fillna(0).astype(int)
\* on one cell (lines 76-78)
ToInt(c) ==
    IF c.t = "int" THEN c
    ELSE IF c.t = "nan" THEN I(0)
    ELSE LET txt == RemoveCommas(c.s)
         IN  IF IsIntLiteral(txt) THEN I(IntLiteralValue(txt)) ELSE I(0)

\* lines 65-70: every final column the frame lacks is added, 0 for a numeric
\* column and "" otherwise
RECURSIVE EnsureColumns(_, _, _)
EnsureColumns(df, cols, numeric_cols) ==
    IF cols = <<>> THEN df
    ELSE EnsureColumns(
            IF InSeq(Head(cols), df.columns) THEN df
            ELSE AddColumn(df, Head(cols),
                           IF InSeq(Head(cols), numeric_cols) THEN I(0) ELSE S(<<>>)),
            Tail(cols), numeric_cols)

\* lines 74-79
ConvertNumeric(df, numeric_cols) ==
    Frame(df.columns,
          [i \in 1..Len(df.rows) |->
              [j \in 1..Len(df.columns) |->
                  IF InSeq(df.columns[j], numeric_cols) THEN ToInt(df.rows[i][j])
                  ELSE df.rows[i][j]]])

HasTypeError(df) ==
    \E i \in 1..Len(df.rows) : \E j \in 1..Len(df.columns) : df.rows[i][j].t = "err"

\* A transform stage either returns a frame or raises.
Returned(df) == [raised |-> FALSE, df |-> df]
Raised == [raised |-> TRUE, df |-> EmptyFrame(<<>>)]

_pivot_dataframe(df, index_cols, agg_col, values_col, final_col_order, numeric_cols) ==
    IF IsEmpty(df) THEN Returned(EmptyFrame(final_col_order))
    ELSE IF ~InSeq(agg_col, df.columns) \/ ~InSeq(values_col, df.columns)
    THEN Returned(ConvertNumeric(
                Reindex(EnsureColumns(df, final_col_order, numeric_cols),
                        final_col_order, I(0)),
                numeric_cols))
    ELSE IF \E i \in 1..Len(index_cols) : ~InSeq(index_cols[i], df.columns)
    THEN Raised        \* KeyError from pivot_table
    ELSE LET pivot_df == PivotTable(df, index_cols, agg_col, values_col)
         IN  IF HasTypeError(pivot_df) THEN Raised
             ELSE Returned(ConvertNumeric(
                      Reindex(EnsureColumns(pivot_df, final_col_order, numeric_cols),
                              final_col_order, I(0)),
                      numeric_cols))

-----------------------------------------------------------------------------
(* Stage C: _add_subtotals_and_grandtotal *)

\* the seasons ranked alphabetically
term_order_map_Alphabetical(term_name) ==
    IF term_name = FALL THEN I(0)
    ELSE IF term_name = SPRING THEN I(1)
    ELSE IF term_name = SUMMER THEN I(2)
    ELSE Inf

\* term_order_map.get(term_name, float('inf'))
term_order_map(term_name) ==
    IF term_name = SPRING THEN I(0)
    ELSE IF term_name = SUMMER THEN I(1)
    ELSE IF term_name = FALL THEN I(2)
    ELSE Inf

\* get_sort_keys with every unknown term name sent to (inf, inf)
get_sort_keys_UnknownLast(term) ==
    IF IsNa(term) \/ Strip(term.s) = <<>> \/ term.s = Grand_Total
    THEN <<Inf, Inf>>
    ELSE LET parts == Split(Upper(term.s))
             term_name == parts[1]
             year == IF Len(parts) > 1 /\ IsIntLiteral(parts[Len(parts)])
                     THEN I(IntLiteralValue(parts[Len(parts)]))
                     ELSE Inf
         IN  IF term_order_map(term_name) = Inf THEN <<Inf, Inf>>
             ELSE <<year, term_order_map(term_name)>>

\* get_sort_keys(term_str): the pair (year, term_sort_order)
get_sort_keys(term) ==
    IF IsNa(term) \/ Strip(term.s) = <<>> \/ term.s = Grand_Total
    THEN <<Inf, Inf>>
    ELSE LET parts == Split(Upper(term.s))
             term_name == parts[1]
             year == IF Len(parts) > 1 /\ IsIntLiteral(parts[Len(parts)])
                     THEN I(IntLiteralValue(parts[Len(parts)]))
                     ELSE Inf
         IN  <<year, term_order_map(term_name)>>

\* lines 99-135: the rows in the order the custom sort leaves them
SortRows(pivot_df) ==
    IF InSeq(Application_Term, pivot_df.columns)
    THEN LET keyOf(r) == get_sort_keys(Cell(pivot_df, r, Application_Term))
                         \o (IF InSeq(Program, pivot_df.columns)
                             THEN <<Cell(pivot_df, r, Program)>> ELSE <<>>)
             sorted == SortByKey([i \in 1..Len(pivot_df.rows) |->
                                     [key |-> keyOf(pivot_df.rows[i]),
                                      row |-> pivot_df.rows[i]]])
         IN  [i \in 1..Len(sorted) |-> sorted[i].row]
    ELSE IF InSeq(Program, pivot_df.columns)
    THEN LET sorted == SortByKey([i \in 1..Len(pivot_df.rows) |->
                                     [key |-> <<S(AsStr(Cell(pivot_df, pivot_df.rows[i],
                                                                 Program)))>>,
                                      row |-> pivot_df.rows[i]]])
         IN  [i \in 1..Len(sorted) |-> sorted[i].row]
    ELSE pivot_df.rows

\* lines 99-143: pivot_df as the grouping loop sees it
SortedPivot(pivot_df, final_col_order) ==
    Reindex(Frame(pivot_df.columns, SortRows(pivot_df)), final_col_order, I(0))

\* groupby("Application Term", sort=False): the group names in order of first
\* appearance; rows whose term is missing belong to no group
GroupTerms(df) ==
    Distinct(SelectSeq([i \in 1..Len(df.rows) |-> Cell(df, df.rows[i], Application_Term)],
                       LAMBDA c : ~IsNa(c)))

GroupRows(df, term) == SelectSeq(df.rows, LAMBDA r : Cell(df, r, Application_Term) = term)

\* a subtotal row summed over the whole frame instead of the term's group
SubtotalRow_WholeTable(df, term, group, numeric_cols_for_sum) ==
    [j \in 1..Len(df.columns) |->
        IF df.columns[j] = Application_Term THEN term
        ELSE IF df.columns[j] = Program THEN S(Total)
        ELSE IF InSeq(df.columns[j], numeric_cols_for_sum)
             THEN I(ColumnSum(df, df.rows, df.columns[j]))
        ELSE S(<<>>)]

\* lines 157-172: the subtotal row of one term group
SubtotalRow(df, term, group, numeric_cols_for_sum) ==
    [j \in 1..Len(df.columns) |->
        IF df.columns[j] = Application_Term THEN term
        ELSE IF df.columns[j] = Program THEN S(Total)
        ELSE IF InSeq(df.columns[j], numeric_cols_for_sum)
             THEN I(ColumnSum(df, group, df.columns[j]))
        ELSE S(<<>>)]

\* the grouping loop without the test of line 150: a subtotal row after
\* every group
RECURSIVE RowsWithSubtotals_EveryGroup(_, _, _)
RowsWithSubtotals_EveryGroup(df, terms, numeric_cols_for_sum) ==
    IF terms = <<>> THEN <<>>
    ELSE LET term == Head(terms)
             group == GroupRows(df, term)
         IN  Append(group, SubtotalRow(df, term, group, numeric_cols_for_sum))
             \o RowsWithSubtotals_EveryGroup(df, Tail(terms), numeric_cols_for_sum)

\* lines 149-172: every group, each but a "Grand Total" group followed by its
\* subtotal row
RECURSIVE RowsWithSubtotals(_, _, _)
RowsWithSubtotals(df, terms, numeric_cols_for_sum) ==
    IF terms = <<>> THEN <<>>
    ELSE LET term == Head(terms)
             group == GroupRows(df, term)
         IN  (IF term = S(Grand_Total) THEN group
              ELSE Append(group, SubtotalRow(df, term, group, numeric_cols_for_sum)))
             \o RowsWithSubtotals(df, Tail(terms), numeric_cols_for_sum)

\* a grand total summed over the frame with its subtotal rows, each grouped
\* data row counted a second time through its subtotal
GrandTotalRow_CountingSubtotals(df, numeric_cols_for_sum) ==
    [j \in 1..Len(df.columns) |->
        IF df.columns[j] = Application_Term THEN S(Grand_Total)
        ELSE IF InSeq(df.columns[j], numeric_cols_for_sum)
             THEN I(ColumnSum(df, df.rows, df.columns[j])
                    + ColumnSum(df, SelectSeq(df.rows,
                          LAMBDA r : ~IsNa(Cell(df, r, Application_Term))),
                          df.columns[j]))
        ELSE S(<<>>)]

\* lines 185-194: the grand-total row, summed over the rows of pivot_df
GrandTotalRow(df, numeric_cols_for_sum) ==
    [j \in 1..Len(df.columns) |->
        IF df.columns[j] = Application_Term THEN S(Grand_Total)
        ELSE IF InSeq(df.columns[j], numeric_cols_for_sum)
             THEN I(ColumnSum(df, df.rows, df.columns[j]))
        ELSE S(<<>>)]

HasGrandTotal(df) ==
    \E i \in 1..Len(df.rows) : Cell(df, df.rows[i], Application_Term) = S(Grand_Total)

_add_subtotals_and_grandtotal(pivot_df, index_cols_for_subtotal, subtotal_cols_to_agg, final_col_order) ==
    IF IsEmpty(pivot_df) THEN pivot_df
    ELSE LET numeric_cols_for_sum ==
                 SelectSeq(subtotal_cols_to_agg, LAMBDA c : InSeq(c, pivot_df.columns))
             sorted == SortedPivot(pivot_df, final_col_order)
             all_rows_with_subtotals ==
                 RowsWithSubtotals(sorted, GroupTerms(sorted), numeric_cols_for_sum)
         IN  IF all_rows_with_subtotals = <<>>
             THEN Reindex(sorted, final_col_order, I(0))
             ELSE IF HasGrandTotal(sorted)
             THEN Reindex(Frame(sorted.columns, all_rows_with_subtotals),
                          final_col_order, I(0))
             ELSE IF numeric_cols_for_sum # <<>>
             THEN Reindex(Frame(sorted.columns,
                                Append(all_rows_with_subtotals,
                                       GrandTotalRow(sorted, numeric_cols_for_sum))),
                          final_col_order, I(0))
             ELSE Reindex(Frame(sorted.columns, all_rows_with_subtotals),
                          final_col_order, I(0))

-----------------------------------------------------------------------------
(* process_progress_report_data and process_admit_breakdown_data *)

\* What one transform call computes: the frame after each stage and what it
\* returns; raised when an exception leaves the transform.
ProcessReport(raw, cfg) ==
    LET cleaned == _clean_dataframe(raw, cfg.drop_cols, cfg.remove_row_string)
        pivoted == _pivot_dataframe(cleaned, cfg.index_cols, cfg.agg_col, cfg.values_col,
                                    cfg.final_col_order, cfg.numeric_cols)
        none == EmptyFrame(<<>>)
    IN  IF IsEmpty(cleaned)
        THEN [cleaned |-> cleaned, pivoted |-> none, sorted |-> none,
              final |-> EmptyFrame(cfg.final_col_order), raised |-> FALSE]
        ELSE IF pivoted.raised
        THEN [cleaned |-> cleaned, pivoted |-> none, sorted |-> none,
              final |-> none, raised |-> TRUE]
        ELSE IF IsEmpty(pivoted.df)
        THEN [cleaned |-> cleaned, pivoted |-> pivoted.df, sorted |-> none,
              final |-> pivoted.df, raised |-> FALSE]
        ELSE [cleaned |-> cleaned, pivoted |-> pivoted.df,
              sorted |-> SortedPivot(pivoted.df, cfg.final_col_order),
              final |-> _add_subtotals_and_grandtotal(pivoted.df, cfg.index_cols,
                                                      cfg.subtotal_cols, cfg.final_col_order),
              raised |-> FALSE]

process_progress_report_data(raw) == ProcessReport(raw, ProgressSettings)
process_admit_breakdown_data(raw) == ProcessReport(raw, AdmitSettings)

-----------------------------------------------------------------------------
(* The frames handed to the transforms *)

\* most rows a source frame is given
MaxRows == 3

\* A long-form export: one row per (index tuple, measure name).
LongColumns ==
    <<Application_Term, Program, CURRICULUM, DEGREE, Measure_Names, Measure_Values,
      ApplicationTerm_Order>>

\* A wide-form export: one column per measure, one of them unknown to both
\* reports, the column order not the final one.
WideColumns ==
    <<Program, Application_Term, CURRICULUM, DEGREE, Submitted_Applicants, Enrolled,
      Withdrawn_Before_Decision, Extra_Column>>

LongRow(term, program, measure, value) ==
    <<term, program, S(Curr_CS), S(Deg_MS), S(measure), value, I(1)>>

WideRow(term, program, submitted, enrolled, withdrawn) ==
    <<program, term, S(Curr_CS), S(Deg_MS), submitted, enrolled, withdrawn,
      S(Other_Measure)>>

LongRows ==
    { LongRow(S(FALL_2025), S(Prog_A), Submitted_Applicants, I(5)),
      LongRow(S(FALL_2025), S(Prog_B), Submitted_Applicants, S(Txt_12)),
      LongRow(S(FALL_2025), S(Prog_A), Enrolled, I(-3)),
      LongRow(S(SPRING_2026), S(Prog_A), Submitted_Applicants, I(7)),
      LongRow(S(SUMMER_2025), S(Prog_B), Withdrawn_Before_Decision, I(2)),
      LongRow(S(SUMMER_2025), S(Prog_A), Other_Measure, I(4)),
      LongRow(S(WINTER_2025), S(Prog_B), Submitted_Applicants, S(Txt_NA)),
      LongRow(NaN, S(Prog_A), Submitted_Applicants, I(6)) }

WideRows ==
    { WideRow(S(FALL_2025), S(Prog_B), I(5), I(1), I(0)),
      WideRow(S(FALL_2025), S(Prog_A), S(Txt_1234), S(Txt_NA), NaN),
      WideRow(S(SUMMER_2025), S(Prog_A), I(2), I(-3), S(Txt_7)),
      WideRow(S(SPRING_2026), S(Prog_A), I(7), I(0), I(1)),
      WideRow(S(SPRING_2025), NaN, I(4), I(2), I(0)),
      WideRow(S(Grand_Total), S(<<>>), I(20), I(2), I(3)),
      WideRow(NaN, S(Prog_A), I(6), I(1), I(1)),
      WideRow(S(Blank), S(Prog_all), I(8), I(8), I(8)) }

RowsFor(columns) == IF columns = LongColumns THEN LongRows ELSE WideRows

NoFrame == EmptyFrame(<<>>)

InitPipeline ==
    /\ df_raw \in {EmptyFrame(LongColumns), EmptyFrame(WideColumns)}
    /\ report = "none"
    /\ df_cleaned = NoFrame
    /\ df_pivoted = NoFrame
    /\ df_sorted = NoFrame
    /\ final_df = NoFrame
    /\ raised = FALSE

\* One more row of the export read by pd.read_csv.
AddRow ==
    /\ report = "none"
    /\ Len(df_raw.rows) < MaxRows
    /\ \E r \in RowsFor(df_raw.columns) :
          df_raw' = Frame(df_raw.columns, Append(df_raw.rows, r))
    /\ UNCHANGED <<report, df_cleaned, df_pivoted, df_sorted, final_df, raised>>
    /\ UNCHANGED <<rawVars, asmVars, keyVars, clientVars, runVars>>

\* A transform call: the frame after each stage is recorded with the result.
Transform(name, out) ==
    /\ report = "none"
    /\ report' = name
    /\ \E o \in {out} :
          /\ df_cleaned' = o.cleaned
          /\ df_pivoted' = o.pivoted
          /\ df_sorted' = o.sorted
          /\ final_df' = o.final
          /\ raised' = o.raised
    /\ UNCHANGED df_raw
    /\ UNCHANGED <<rawVars, asmVars, keyVars, clientVars, runVars>>

ProgressReport == Transform("progress", process_progress_report_data(df_raw))
AdmitBreakdown == Transform("admit", process_admit_breakdown_data(df_raw))

\* the settings of the transform that ran
SettingsOf(name) == IF name = "admit" THEN AdmitSettings ELSE ProgressSettings

NextPipeline ==
    \/ AddRow
    \/ ProgressReport
    \/ AdmitBreakdown

-----------------------------------------------------------------------------
(* process_raw_data_applicant_download *)

RAW_DATA_DROP_COLUMNS ==
    <<<<"B", "l", "a", "n", "k">>,
      <<"M", "o", "n", "t", "h", ",", " ", "D", "a", "y", ",", " ", "Y", "e", "a", "r", " ", "o", "f", " ", "D", "a", "t", "a", " ", "R", "e", "f", "r", "e", "s", "h", " ", "D", "a", "t", "e">>,
      <<"I", "n", "d", "e", "x">>,
      <<"C", "o", "u", "n", "t", " ", "o", "f", " ", "F", "I", "R", "S", "T", "_", "N", "A", "M", "E">>>>

RAW_DATA_FINAL_COLUMN_SELECTION_ORDER ==
    <<<<"P", "E", "O", "P", "L", "E", "_", "C", "O", "D", "E", "_", "I", "D">>,
      <<"F", "I", "R", "S", "T", "_", "N", "A", "M", "E">>,
      <<"L", "A", "S", "T", "_", "N", "A", "M", "E">>,
      <<"P", "e", "r", "s", "o", "n", "a", "l", "_", "E", "M", "A", "I", "L">>,
      <<"S", "M", "U", "_", "E", "M", "A", "I", "L">>,
      Application_Term,
      Program,
      CURRICULUM,
      DEGREE,
      <<"C", "a", "m", "p", "u", "s">>,
      <<"A", "C", "A", "D", "E", "M", "I", "C", "_", "S", "E", "S", "S", "I", "O", "N">>,
      <<"A", "P", "P", "_", "D", "E", "C", "I", "S", "I", "O", "N">>,
      <<"S", "u", "b", "m", "i", "t", "t", "e", "d", " ", "A", "p", "p", "l", "i", "c", "a", "n", "t", " ", "D", "e", "c", "i", "s", "i", "o", "n">>,
      <<"A", "P", "P", "_", "S", "T", "A", "T", "U", "S">>,
      <<"S", "u", "b", "m", "i", "t", "t", "e", "d", " ", "A", "p", "p", "l", "i", "c", "a", "n", "t", " ", "S", "t", "a", "t", "u", "s">>,
      <<"E", "N", "R", "O", "L", "L", "_", "S", "E", "P", "A", "R", "A", "T", "I", "O", "N">>,
      <<"A", "P", "P", "L", "I", "C", "A", "T", "I", "O", "N", "_", "D", "A", "T", "E">>,
      <<"A", "C", "A", "D", "E", "M", "I", "C", "_", "F", "L", "A", "G">>>>

\* df[cols] with the columns in source order, not in the order of cols
SelectColumns_SourceOrder(df, cols) ==
    LET keep == SelectSeq(df.columns, LAMBDA c : InSeq(c, cols))
    IN  Frame(keep, [i \in 1..Len(df.rows) |->
                        [j \in 1..Len(keep) |-> Cell(df, df.rows[i], keep[j])]])

\* df[cols]
SelectColumns(df, cols) ==
    Frame(cols, [i \in 1..Len(df.rows) |->
                    [j \in 1..Len(cols) |-> Cell(df, df.rows[i], cols[j])]])

\* data_handler.py lines 274-286
process_raw_data_applicant_download(source) ==
    LET cols_to_drop == SelectSeq(RAW_DATA_DROP_COLUMNS, LAMBDA col : InSeq(col, source.columns))
        df == IF cols_to_drop # <<>> THEN DropColumns(source, cols_to_drop) ELSE source
        existing_cols_for_selection ==
            SelectSeq(RAW_DATA_FINAL_COLUMN_SELECTION_ORDER, LAMBDA col : InSeq(col, df.columns))
    IN  IF existing_cols_for_selection = <<>> THEN df
        ELSE SelectColumns(df, existing_cols_for_selection)

\* most columns a raw-data export is given
MaxRawColumns == 3

\* The column names a raw-data export draws from: three of the selection list
\* (not in list order), one of the drop list and one in neither.
RawColumnPool ==
    { RAW_DATA_FINAL_COLUMN_SELECTION_ORDER[2], RAW_DATA_FINAL_COLUMN_SELECTION_ORDER[1],
      RAW_DATA_FINAL_COLUMN_SELECTION_ORDER[7], RAW_DATA_DROP_COLUMNS[3], Extra_Column }

\* the cell of row i in column col: a text that tells both
RawCell(col, i) == S(col \o IntToStr(i))

\* the export with these columns and n rows
RawFrame(cols, n) == Frame(cols, [i \in 1..n |-> [j \in 1..Len(cols) |-> RawCell(cols[j], i)]])

InitRaw ==
    /\ raw_source = EmptyFrame(<<>>)
    /\ raw_result = EmptyFrame(<<>>)
    /\ raw_called = FALSE

\* one more column in the export
RawAddColumn ==
    /\ ~raw_called
    /\ Len(raw_source.columns) < MaxRawColumns
    /\ \E col \in RawColumnPool :
          /\ ~InSeq(col, raw_source.columns)
          /\ raw_source' = RawFrame(Append(raw_source.columns, col), Len(raw_source.rows))
    /\ UNCHANGED <<raw_result, raw_called>>
    /\ UNCHANGED <<df_raw, report, df_cleaned, df_pivoted, df_sorted, final_df, raised>>
    /\ UNCHANGED <<asmVars, keyVars, clientVars, runVars>>

\* one more row in the export
RawAddRow ==
    /\ ~raw_called
    /\ Len(raw_source.rows) < MaxRows
    /\ raw_source' = RawFrame(raw_source.columns, Len(raw_source.rows) + 1)
    /\ UNCHANGED <<raw_result, raw_called>>
    /\ UNCHANGED <<df_raw, report, df_cleaned, df_pivoted, df_sorted, final_df, raised>>
    /\ UNCHANGED <<asmVars, keyVars, clientVars, runVars>>

\* the transform is called on the export
RawDataApplicantDownload ==
    /\ ~raw_called
    /\ raw_called' = TRUE
    /\ raw_result' = process_raw_data_applicant_download(raw_source)
    /\ UNCHANGED raw_source
    /\ UNCHANGED <<df_raw, report, df_cleaned, df_pivoted, df_sorted, final_df, raised>>
    /\ UNCHANGED <<asmVars, keyVars, clientVars, runVars>>

NextRaw ==
    \/ RawAddColumn
    \/ RawAddRow
    \/ RawDataApplicantDownload

-----------------------------------------------------------------------------
(* tableau_connector/client.py: TableauClient *)

\* Python's None, for the session fields and for texts
None == "None"

\* a Python value that is false in a condition: None or the empty string
Falsy(v) == v = None \/ v = ""

\* total_retries, the default of TableauClient.__init__ (main.py passes none)
TOTAL_RETRIES == 3

\* Retry(status_forcelist=...)
status_forcelist == {429, 500, 502, 503, 504}

\* What one attempt of a request can meet: an HTTP response, a refused or
\* dropped connection, or a read timeout.  An optional integer is a set with
\* at most one element.
Statuses == {200, 404, 429, 503}
Texts == {"body-a", "body-b"}

\* the "credentials" object of a sign-in response body; json = FALSE when the
\* body is no JSON object
Credentials ==
    [json : {TRUE}, token : {None, "", "token"}, site : {None, "site-id"},
     user : {None, "user-id"}]
NoJson == [json |-> FALSE, token |-> None, site |-> None, user |-> None]

HttpResponses ==
    [kind : {"http"}, status : Statuses, text : Texts, body : {NoJson}]
SignInResponses ==
    [kind : {"http"}, status : {200}, text : Texts, body : Credentials]
TransportFailures ==
    [kind : {"connection_error", "read_timeout"}, status : {0}, text : {None},
     body : {NoJson}]

ResponsesFor(method) ==
    HttpResponses \cup TransportFailures
        \cup (IF method = "authenticate" THEN SignInResponses ELSE {})

\* a retry policy that retries on the forcelist statuses only
CountsAgainstRetries_StatusOnly(resp) ==
    resp.kind = "http" /\ resp.status \in status_forcelist

\* Retry.is_retry for an HTTP response, and the except clauses of urlopen for a
\* failed connection or read: the attempt counts against Retry.total
CountsAgainstRetries(resp) ==
    resp.kind # "http" \/ resp.status \in status_forcelist

\* a retry budget that gives out one attempt early
IsExhausted_OneShort(total) == total - 2 < 0

\* Retry.increment(...).is_exhausted(): total - 1 < 0
IsExhausted(total) == total - 1 < 0

\* Response.raise_for_status()
IsErrorStatus(status) == 400 <= status /\ status < 600

NoError == [type |-> "none", status_code |-> {}, response_text |-> None]

\* TableauAPIError(message, status_code, response_text)
TableauAPIError(status_code, response_text) ==
    [type |-> "TableauAPIError", status_code |-> status_code,
     response_text |-> response_text]

\* an exception that is not a TableauAPIError (response.json() on a body that
\* is no JSON object)
OtherError == [type |-> "Other", status_code |-> {}, response_text |-> None]

\* _make_api_request, given what the last attempt of session.request met:
\* a response whose status is not in the forcelist is returned by the session,
\* and raise_for_status turns a 4xx/5xx into HTTPError (lines 116-123); with
\* the retries exhausted the session raises RetryError, ConnectionError or a
\* timeout, which lines 124-135 wrap without status code or response text.
_make_api_request(resp) ==
    IF resp.kind = "http" /\ ~CountsAgainstRetries(resp)
    THEN IF IsErrorStatus(resp.status)
         THEN TableauAPIError({resp.status}, resp.text)
         ELSE NoError
    ELSE TableauAPIError({}, None)

Session(token, site, user) == [auth_token |-> token, site_id |-> site, user_id |-> user]
CurrentSession == Session(auth_token, site_id, user_id)

\* authenticate() from the point where _make_api_request has returned or
\* raised: the session it leaves and the error it raises, if any
authenticate(session, resp) ==
    LET err == _make_api_request(resp)
        got == Session(resp.body.token, resp.body.site, resp.body.user)
    IN  IF err.type # "none" THEN [session |-> session, error |-> err]
        ELSE IF ~resp.body.json THEN [session |-> session, error |-> OtherError]
        ELSE IF Falsy(got.auth_token) \/ Falsy(got.site_id)
        THEN [session |-> got, error |-> TableauAPIError({}, resp.text)]
        ELSE [session |-> got, error |-> NoError]

\* a sign_out that lets the error of its request out
sign_out_Raising(session, resp) ==
    [session |-> Session(None, None, None), error |-> _make_api_request(resp)]

\* sign_out() from the point where the sign-out request has returned or
\* raised: the TableauAPIError is caught, the finally clause clears the session
sign_out(session, resp) ==
    [session |-> Session(None, None, None), error |-> NoError]

\* get_workbooks_for_user, get_views_for_workbook, get_view_data_csv from the
\* point where the request has returned or raised
get_resource(session, resp) ==
    [session |-> session, error |-> _make_api_request(resp)]

\* a guard that looks at the token alone
NotAuthenticated_TokenOnly(method, session) == Falsy(session.auth_token)

\* the guard at the head of each authenticated method: TRUE when it raises
\* "Authentication required" without sending anything
NotAuthenticated(method, session) ==
    IF method \in {"get_workbooks_for_user", "find_matching_workbooks"}
    THEN Falsy(session.auth_token) \/ Falsy(session.site_id) \/ Falsy(session.user_id)
    ELSE Falsy(session.auth_token) \/ Falsy(session.site_id)

\* find_matching_workbooks and find_matching_views start by calling
\* get_workbooks_for_user and get_views_for_workbook (lines 206, 239)
Methods ==
    {"authenticate", "sign_out", "get_workbooks_for_user", "find_matching_workbooks",
     "get_views_for_workbook", "find_matching_views", "get_view_data_csv"}

Finish(method, session, resp) ==
    IF method = "authenticate" THEN authenticate(session, resp)
    ELSE IF method = "sign_out" THEN sign_out(session, resp)
    ELSE get_resource(session, resp)

NoResponse == [kind |-> "none", status |-> 0, text |-> None, body |-> NoJson]

InitClient ==
    /\ auth_token = None
    /\ site_id = None
    /\ user_id = None
    /\ call = "none"
    /\ attempts = 0
    /\ retry_total = TOTAL_RETRIES
    /\ forced = 0
    /\ authed = FALSE
    /\ last = [method |-> "none", error |-> NoError, response |-> NoResponse]

\* A method that sends a request is entered: authenticate always, sign_out
\* when a token is held, the three authenticated methods when their guard
\* passes.  The session's Retry object starts afresh for each request.
Call(method) ==
    /\ call = "none"
    /\ method = "sign_out" => ~Falsy(auth_token)
    /\ method \notin {"authenticate", "sign_out"} => ~NotAuthenticated(method, CurrentSession)
    /\ call' = method
    /\ attempts' = 0
    /\ forced' = 0
    /\ retry_total' = TOTAL_RETRIES
    /\ UNCHANGED <<auth_token, site_id, user_id, authed, last>>
    /\ UNCHANGED <<pipeVars, runVars>>

\* sign_out() without a token: returns at once, nothing sent, nothing cleared
SignOutSkipped ==
    /\ call = "none"
    /\ Falsy(auth_token)
    /\ last' = [method |-> "sign_out", error |-> NoError, response |-> NoResponse]
    /\ attempts' = 0
    /\ forced' = 0
    /\ UNCHANGED <<auth_token, site_id, user_id, call, retry_total, authed>>
    /\ UNCHANGED <<pipeVars, runVars>>

\* an authenticated method called without a valid session: raises
\* TableauAPIError(status_code=401), nothing sent
Refused(method) ==
    /\ call = "none"
    /\ method \in Methods \ {"authenticate", "sign_out"}
    /\ NotAuthenticated(method, CurrentSession)
    /\ last' = [method |-> method, error |-> TableauAPIError({401}, None),
                response |-> NoResponse]
    /\ attempts' = 0
    /\ forced' = 0
    /\ UNCHANGED <<auth_token, site_id, user_id, call, retry_total, authed>>
    /\ UNCHANGED <<pipeVars, runVars>>

\* One attempt of the request in flight is answered.  If it counts against the
\* retries and they are not exhausted the adapter tries again; otherwise the
\* request is over and the method runs to its end.
Attempt(resp) ==
    /\ call # "none"
    /\ resp \in ResponsesFor(call)
    /\ attempts' = attempts + 1
    /\ forced' = IF resp.kind = "http" /\ resp.status \in status_forcelist
                 THEN forced + 1 ELSE forced
    /\ IF CountsAgainstRetries(resp) /\ ~IsExhausted(retry_total)
       THEN /\ retry_total' = retry_total - 1
            /\ UNCHANGED <<auth_token, site_id, user_id, call, authed, last>>
       ELSE LET done == Finish(call, CurrentSession, resp)
            IN  /\ auth_token' = done.session.auth_token
                /\ site_id' = done.session.site_id
                /\ user_id' = done.session.user_id
                /\ authed' = (authed \/ (call = "authenticate" /\ done.error.type = "none"))
                /\ last' = [method |-> call, error |-> done.error, response |-> resp]
                /\ call' = "none"
                /\ UNCHANGED retry_total
    /\ UNCHANGED <<pipeVars, runVars>>

NextClient ==
    \/ \E m \in Methods : Call(m)
    \/ SignOutSkipped
    \/ \E m \in Methods : Refused(m)
    \/ \E resp \in HttpResponses \cup SignInResponses \cup TransportFailures : Attempt(resp)

-----------------------------------------------------------------------------
(* main.py: run_reporting_workflow, with the listing filters of the client *)
(* and generate_excel_sheets_from_views                                   *)


\* config/settings.py: workbook and view identification
TARGET_PROJECT_NAME == 
    <<"A", "d", "m", "i", "s", "s", "i", "o", "n", "s", " ", "P", "i",
      "p", "e", "l", "i", "n", "e">>
TARGET_WORKBOOK_NAME_CONTAINS == 
    <<"S", "t", "u", "d", "e", "n", "t", "_", "L", "i", "f", "e", "c",
      "y", "c", "l", "e", "_", "P", "i", "p", "e", "l", "i", "n", "e">>
PROGRESS_REPORT_VIEW_URL_NAME == 
    <<"A", "p", "p", "l", "i", "c", "a", "n", "t", "s", "-", "S", "u",
      "b", "m", "i", "t", "t", "e", "d", "Q", "u", "a", "l", "i", "f",
      "i", "e", "d", "A", "d", "m", "i", "t", "t", "e", "d", "W", "a",
      "i", "t", "L", "i", "s", "t", "e", "d", "D", "e", "p", "o", "s",
      "i", "t", "e", "d", "T", "a", "b", "l", "e">>
RAW_DATA_VIEW_URL_NAME == 
    <<"P", "o", "w", "e", "r", "C", "a", "m", "p", "u", "s", "A", "p",
      "p", "l", "i", "c", "a", "n", "t", "D", "o", "w", "n", "l", "o",
      "a", "d">>
ADMIT_BREAKDOWN_VIEW_URL_NAME == 
    <<"S", "u", "b", "m", "i", "t", "t", "e", "d", "A", "p", "p", "l",
      "i", "c", "a", "n", "t", "S", "t", "a", "t", "u", "s", "D", "e",
      "t", "a", "i", "l", "e", "d">>

\* the sheet names of VIEW_URL_NAME_TO_SHEET_NAME_MAP and the error prefix
Progress_Report == 
    <<"P", "r", "o", "g", "r", "e", "s", "s", " ", "R", "e", "p", "o",
      "r", "t">>
Raw_Data == <<"R", "a", "w", " ", "D", "a", "t", "a">>
Application_Status_Breakdown == 
    <<"A", "p", "p", "l", "i", "c", "a", "t", "i", "o", "n", " ", "S",
      "t", "a", "t", "u", "s", " ", "B", "r", "e", "a", "k", "d", "o",
      "w", "n">>
ERROR_ == <<"E", "R", "R", "O", "R", "_">>

\* names a server answers with
Name_Pipeline_FY25 == 
    <<"S", "t", "u", "d", "e", "n", "t", "_", "L", "i", "f", "e", "c",
      "y", "c", "l", "e", "_", "P", "i", "p", "e", "l", "i", "n", "e",
      "_", "F", "Y", "2", "5">>
Name_Old_Pipeline == 
    <<"O", "l", "d", " ", "S", "t", "u", "d", "e", "n", "t", "_", "L",
      "i", "f", "e", "c", "y", "c", "l", "e", "_", "P", "i", "p", "e",
      "l", "i", "n", "e">>
Name_Lifecycle == 
    <<"S", "t", "u", "d", "e", "n", "t", "_", "L", "i", "f", "e", "c",
      "y", "c", "l", "e">>
Project_lowercase == 
    <<"a", "d", "m", "i", "s", "s", "i", "o", "n", "s", " ", "p", "i",
      "p", "e", "l", "i", "n", "e">>
Project_Finance == <<"F", "i", "n", "a", "n", "c", "e">>
Url_Other == 
    <<"E", "n", "r", "o", "l", "l", "m", "e", "n", "t", "F", "u", "n",
      "n", "e", "l", "B", "y", "T", "e", "r", "m", "A", "n", "d", "P",
      "r", "o", "g", "r", "a", "m", "D", "a", "s", "h", "b", "o", "a",
      "r", "d">>
Url_Summary == <<"S", "u", "m", "m", "a", "r", "y">>
View_Progress == <<"P", "r", "o", "g", "r", "e", "s", "s">>

TARGET_VIEW_URL_NAMES ==
    <<PROGRESS_REPORT_VIEW_URL_NAME, RAW_DATA_VIEW_URL_NAME, ADMIT_BREAKDOWN_VIEW_URL_NAME>>

\* s[:n]
Take(s, n) == SubSeq(s, 1, IF Len(s) < n THEN Len(s) ELSE n)

\* a prefix test in the place of the substring test
Contains_AsPrefix(sub, s) == Len(sub) <= Len(s) /\ SubSeq(s, 1, Len(sub)) = sub

\* sub in s
Contains(sub, s) ==
    \E i \in 0..(Len(s) - Len(sub)) : SubSeq(s, i + 1, i + Len(sub)) = sub

\* VIEW_URL_NAME_TO_SHEET_NAME_MAP.get(view_url_name, view_url_name[:31])
SheetNameOf(view_url_name) ==
    IF view_url_name = PROGRESS_REPORT_VIEW_URL_NAME THEN Progress_Report
    ELSE IF view_url_name = RAW_DATA_VIEW_URL_NAME THEN Raw_Data
    ELSE IF view_url_name = ADMIT_BREAKDOWN_VIEW_URL_NAME THEN Application_Status_Breakdown
    ELSE Take(view_url_name, 31)

\* f"ERROR_{sheet_name[:25]}"
ErrorSheetName(sheet_name) == ERROR_ \o Take(sheet_name, 25)

\* A workbook of the server's list.  An id the server left out is None, the
\* project is the set of at most one project name, and the name defaults to
\* "" (wb.get("name", "")).
Workbook(id, project, name, has_name) ==
    [id |-> id, project |-> project, name |-> name, has_name |-> has_name]

\* find_matching_workbooks, lines 208-212: the filter over all_workbooks
find_matching_workbooks(all, project_name, name_contains_filter) ==
    SelectSeq(all, LAMBDA wb :
        /\ wb.project = {project_name}
        /\ Contains(name_contains_filter, IF wb.has_name THEN wb.name ELSE <<>>))

\* A view of the server's list; a missing key is None, a missing
\* viewUrlName or name defaults to "".
View(id, viewUrlName, name) == [id |-> id, viewUrlName |-> viewUrlName, name |-> name]

\* find_matching_views, lines 241-246
find_matching_views(views, target_view_url_names) ==
    SelectSeq(views, LAMBDA view :
        InSeq(view.viewUrlName, target_view_url_names)
            \/ InSeq(view.name, target_view_url_names))

MaxWorkbooks == 2
MaxViews == 2

SeqsUpTo(set, n) == UNION {[1..k -> set] : k \in 0..n}

ServerWorkbooks ==
    { Workbook("wb-1", {TARGET_PROJECT_NAME}, Name_Pipeline_FY25, TRUE),
      Workbook("wb-2", {TARGET_PROJECT_NAME}, Name_Old_Pipeline, TRUE),
      Workbook("wb-3", {Project_Finance}, Name_Pipeline_FY25, TRUE),
      Workbook("wb-4", {TARGET_PROJECT_NAME}, Name_Lifecycle, TRUE),
      Workbook("wb-5", {Project_lowercase}, Name_Pipeline_FY25, TRUE),
      Workbook(None, {TARGET_PROJECT_NAME}, TARGET_WORKBOOK_NAME_CONTAINS, TRUE),
      Workbook("wb-7", {TARGET_PROJECT_NAME}, <<>>, FALSE),
      Workbook("wb-8", {}, Name_Pipeline_FY25, TRUE) }

ServerViews ==
    { View("v-1", PROGRESS_REPORT_VIEW_URL_NAME, View_Progress),
      View("v-2", RAW_DATA_VIEW_URL_NAME, Raw_Data),
      View("v-3", ADMIT_BREAKDOWN_VIEW_URL_NAME, Application_Status_Breakdown),
      View("v-4", Url_Other, RAW_DATA_VIEW_URL_NAME),
      View("v-5", Url_Summary, Url_Summary),
      View(None, PROGRESS_REPORT_VIEW_URL_NAME, View_Progress) }

\* what the request of a listing method ends with: the last response of the
\* retrying session, and whether its body parses as JSON
ListingResponses == HttpResponses \cup TransportFailures

\* the except clause of run_reporting_workflow that catches an error of the
\* client: TableauAPIError at line 125; requests' JSONDecodeError is a
\* ValueError, line 127
CaughtAs(error) == IF error.type = "TableauAPIError" THEN "TableauAPIError" ELSE "ValueError"

InitRun ==
    /\ pc = "authenticate"
    /\ tableau_client = FALSE
    /\ client_calls = <<>>
    /\ requests = <<>>
    /\ all_workbooks = <<>>
    /\ matching_workbooks = {}
    /\ target_workbook_id = None
    /\ all_views = <<>>
    /\ views_to_fetch = <<>>
    /\ next_view = 1
    /\ sheets = <<>>
    /\ file_written = FALSE
    /\ formatted = FALSE
    /\ emailed = "no"
    /\ run_error = "none"

\* the client fields a workflow step does not touch
RunClientUnchanged == UNCHANGED <<call, attempts, retry_total, forced, last>>

\* where the workflow goes on after authenticate() has run with no error
\* handling at all
AfterAuthenticate_GoOn(error) == "find_workbooks"

\* a failed authenticate() that ends the run past the finally clause
AfterAuthenticate_NoFinally(error) == IF error.type = "none" THEN "find_workbooks" ELSE "done"

\* main.py lines 61-62 and 125-136: after authenticate() the workflow goes on
\* to the workbooks, or, on an error, to the except and finally clauses
AfterAuthenticate(error) == IF error.type = "none" THEN "find_workbooks" ELSE "finally"

\* the check of line 76 alone, without the one of line 69
AfterFindWorkbooks_Unchecked(found) ==
    IF found # <<>> /\ Falsy(found[1].id) THEN "finally" ELSE "find_views"

\* main.py lines 69-82: the run returns when no workbook matched or the first
\* match has no id
AfterFindWorkbooks(found) ==
    IF found = <<>> THEN "finally"
    ELSE IF Falsy(found[1].id) THEN "finally"
    ELSE "find_views"

\* main.py lines 54-61: the client is constructed and authenticate() called;
\* a constructor that raises (a setting that is None) leaves tableau_client None
RunAuthenticate ==
    /\ pc = "authenticate"
    /\ \E constructed \in BOOLEAN :
          IF ~constructed
          THEN /\ pc' = "finally"
               /\ run_error' = "Exception"
               /\ UNCHANGED <<tableau_client, client_calls, requests, auth_token, site_id,
                              user_id, authed>>
          ELSE \E resp \in ResponsesFor("authenticate") :
               LET done == authenticate(CurrentSession, resp)
               IN  /\ tableau_client' = TRUE
                   /\ client_calls' = Append(client_calls, "authenticate")
                   /\ auth_token' = done.session.auth_token
                   /\ site_id' = done.session.site_id
                   /\ user_id' = done.session.user_id
                   /\ authed' = (done.error.type = "none")
                   /\ requests' = Append(requests, "auth/signin")
                   /\ pc' = AfterAuthenticate(done.error)
                   /\ run_error' = IF done.error.type = "none" THEN run_error
                                   ELSE CaughtAs(done.error)
    /\ RunClientUnchanged
    /\ UNCHANGED <<all_workbooks, matching_workbooks, target_workbook_id, all_views,
                   views_to_fetch, next_view, sheets, file_written, formatted, emailed>>
    /\ UNCHANGED pipeVars

\* main.py lines 64-82: find_matching_workbooks, then the checks on its result
RunFindWorkbooks ==
    /\ pc = "find_workbooks"
    /\ client_calls' = Append(client_calls, "find_matching_workbooks")
    /\ IF NotAuthenticated("find_matching_workbooks", CurrentSession)
       THEN /\ pc' = "finally"
            /\ run_error' = "TableauAPIError"
            /\ UNCHANGED <<requests, all_workbooks, matching_workbooks, target_workbook_id>>
       ELSE /\ requests' = Append(requests, "workbooks")
            /\ \E resp \in ListingResponses, is_json \in BOOLEAN :
                  LET err == _make_api_request(resp)
                  IN  IF err.type # "none" \/ ~is_json
                      THEN /\ pc' = "finally"
                           /\ run_error' = IF err.type # "none" THEN CaughtAs(err)
                                           ELSE "ValueError"
                           /\ UNCHANGED <<all_workbooks, matching_workbooks,
                                          target_workbook_id>>
                      ELSE \E workbooks \in SeqsUpTo(ServerWorkbooks, MaxWorkbooks) :
                           LET found == find_matching_workbooks(workbooks,
                                   TARGET_PROJECT_NAME, TARGET_WORKBOOK_NAME_CONTAINS)
                           IN  /\ all_workbooks' = workbooks
                               /\ matching_workbooks' = {found}
                               /\ UNCHANGED run_error
                               /\ pc' = AfterFindWorkbooks(found)
                               /\ target_workbook_id' = IF found = <<>> THEN target_workbook_id
                                                        ELSE found[1].id
    /\ RunClientUnchanged
    /\ UNCHANGED <<tableau_client, auth_token, site_id, user_id, authed, all_views, views_to_fetch,
                   next_view, sheets, file_written,
                   formatted, emailed>>
    /\ UNCHANGED pipeVars

\* main.py lines 85-100: find_matching_views, then the check on its result.
\* The workbook lists are not used after line 77 and are let go here.
RunFindViews ==
    /\ pc = "find_views"
    /\ client_calls' = Append(client_calls, "find_matching_views")
    /\ IF NotAuthenticated("find_matching_views", CurrentSession)
       THEN /\ pc' = "finally"
            /\ run_error' = "TableauAPIError"
            /\ UNCHANGED <<requests, all_views, views_to_fetch>>
       ELSE /\ requests' = Append(requests, "views")
            /\ \E resp \in ListingResponses, is_json \in BOOLEAN :
                  LET err == _make_api_request(resp)
                  IN  IF err.type # "none" \/ ~is_json
                      THEN /\ pc' = "finally"
                           /\ run_error' = IF err.type # "none" THEN CaughtAs(err)
                                           ELSE "ValueError"
                           /\ UNCHANGED <<all_views, views_to_fetch>>
                      ELSE \E views \in SeqsUpTo(ServerViews, MaxViews) :
                           LET found == find_matching_views(views, TARGET_VIEW_URL_NAMES)
                           IN  /\ all_views' = views
                               /\ views_to_fetch' = found
                               /\ UNCHANGED run_error
                               /\ pc' = IF found = <<>> THEN "finally" ELSE "assembly"
    /\ all_workbooks' = <<>>
    /\ matching_workbooks' = {}
    /\ RunClientUnchanged
    /\ UNCHANGED <<tableau_client, auth_token, site_id, user_id, authed,
                   target_workbook_id, next_view, sheets, file_written, formatted, emailed>>
    /\ UNCHANGED pipeVars

Sheet(name, content) == [name |-> name, content |-> content]

\* How the try block of one view can end (data_handler.py lines 314-339): the
\* sheet written with data, written empty, or a failure while fetching, while
\* parsing the CSV, in the transform (the two pivoting reports only), or in
\* to_excel.
ViewOutcomes(view_url_name) ==
    {"ok", "empty", "fetch", "parse", "write"}
        \cup (IF view_url_name \in {PROGRESS_REPORT_VIEW_URL_NAME, ADMIT_BREAKDOWN_VIEW_URL_NAME}
              THEN {"transform"} ELSE {})

\* generate_excel_sheets_from_views, one turn of the loop (lines 296-345).
\* A failure of to_excel leaves the sheet it had created, partly filled.  The
\* except clause writes the error sheet with to_excel as well; when that call
\* fails (the message it has to write being what the data sheet could not
\* hold) the error leaves the function, the ExcelWriter context saves what
\* there is, and main.py catches at line 131.
RunView ==
    /\ pc = "assembly"
    /\ LET view == views_to_fetch[next_view]
           sheet_name == SheetNameOf(view.viewUrlName)
           error_sheet == Sheet(ErrorSheetName(sheet_name), "error")
           onward == IF next_view = Len(views_to_fetch) THEN "save" ELSE "assembly"
       IN  IF Falsy(view.id) \/ view.viewUrlName = <<>>
           THEN /\ pc' = onward
                /\ UNCHANGED <<client_calls, requests, sheets, file_written, run_error>>
           ELSE IF NotAuthenticated("get_view_data_csv", CurrentSession)
           THEN /\ pc' = onward
                /\ client_calls' = Append(client_calls, "get_view_data_csv")
                /\ sheets' = Append(sheets, error_sheet)
                /\ UNCHANGED <<requests, file_written, run_error>>
           ELSE /\ client_calls' = Append(client_calls, "get_view_data_csv")
                /\ requests' = Append(requests, "data")
                /\ \E outcome \in ViewOutcomes(view.viewUrlName), handler_ok \in BOOLEAN :
                      IF outcome \in {"ok", "empty"}
                      THEN /\ sheets' = Append(sheets, Sheet(sheet_name,
                                           IF outcome = "ok" THEN "data" ELSE "empty"))
                           /\ pc' = onward
                           /\ UNCHANGED <<file_written, run_error>>
                      ELSE IF outcome # "write"
                      THEN /\ sheets' = Append(sheets, error_sheet)
                           /\ pc' = onward
                           /\ UNCHANGED <<file_written, run_error>>
                      ELSE IF handler_ok
                      THEN /\ sheets' = sheets \o <<Sheet(sheet_name, "partial"), error_sheet>>
                           /\ pc' = onward
                           /\ UNCHANGED <<file_written, run_error>>
                      ELSE /\ sheets' = sheets \o <<Sheet(sheet_name, "partial"),
                                                    Sheet(ErrorSheetName(sheet_name), "partial")>>
                           /\ pc' = "finally"
                           /\ file_written' = TRUE
                           /\ run_error' = "Exception"
    /\ next_view' = next_view + 1
    /\ all_views' = <<>>
    /\ RunClientUnchanged
    /\ UNCHANGED <<tableau_client, auth_token, site_id, user_id, authed, all_workbooks,
                   matching_workbooks, target_workbook_id, views_to_fetch, formatted, emailed>>
    /\ UNCHANGED pipeVars

\* main.py line 102: the ExcelWriter context is left and saves the workbook;
\* openpyxl refuses to save a workbook without a sheet
RunSave ==
    /\ pc = "save"
    /\ IF sheets = <<>>
       THEN pc' = "finally" /\ run_error' = "Exception" /\ UNCHANGED file_written
       ELSE \E saved \in BOOLEAN :
               IF saved
               THEN pc' = "format" /\ file_written' = TRUE /\ UNCHANGED run_error
               ELSE pc' = "finally" /\ run_error' = "IOError" /\ UNCHANGED file_written
    /\ RunClientUnchanged
    /\ UNCHANGED <<tableau_client, client_calls, auth_token, site_id, user_id, authed,
                   requests, all_workbooks,
                   matching_workbooks, target_workbook_id, all_views, views_to_fetch,
                   next_view, sheets, formatted, emailed>>
    /\ UNCHANGED pipeVars

\* a formatting step whose failure is logged and not re-raised
RunFormat_Unchecked ==
    /\ pc = "format"
    /\ \E done \in BOOLEAN : formatted' = done
    /\ pc' = "email"
    /\ RunClientUnchanged
    /\ UNCHANGED <<tableau_client, client_calls, auth_token, site_id, user_id, authed,
                   requests, all_workbooks, matching_workbooks, target_workbook_id, all_views,
                   views_to_fetch, next_view, sheets, file_written, emailed, run_error>>
    /\ UNCHANGED pipeVars

\* main.py line 112: format_excel_workbook returns or re-raises
RunFormat ==
    /\ pc = "format"
    /\ \E done \in BOOLEAN :
          IF done
          THEN pc' = "email" /\ formatted' = TRUE /\ UNCHANGED run_error
          ELSE pc' = "finally" /\ run_error' = "Exception" /\ UNCHANGED formatted
    /\ RunClientUnchanged
    /\ UNCHANGED <<tableau_client, client_calls, auth_token, site_id, user_id, authed,
                   requests, all_workbooks,
                   matching_workbooks, target_workbook_id, all_views, views_to_fetch,
                   next_view, sheets, file_written, emailed>>
    /\ UNCHANGED pipeVars

\* main.py lines 115-121: the report is mailed when recipients are configured;
\* recipients is whether settings.EMAIL_RECIPIENTS_LIST is non-empty, and the
\* mailer reports a failure to send by its return value
RunEmail ==
    /\ pc = "email"
    /\ \E recipients \in BOOLEAN, sent \in BOOLEAN :
          emailed' = IF ~recipients THEN "skipped" ELSE IF sent THEN "sent" ELSE "failed"
    /\ pc' = "finally"
    /\ RunClientUnchanged
    /\ UNCHANGED <<tableau_client, client_calls, auth_token, site_id, user_id, authed,
                   requests, all_workbooks,
                   matching_workbooks, target_workbook_id, all_views, views_to_fetch,
                   next_view, sheets, file_written, formatted,
                   run_error>>
    /\ UNCHANGED pipeVars

\* main.py lines 133-138: the finally clause calls sign_out() when the client
\* was constructed; sign_out sends its request only when a token is held
RunFinally ==
    /\ pc = "finally"
    /\ pc' = "done"
    /\ IF ~tableau_client
       THEN UNCHANGED <<client_calls, requests, auth_token, site_id, user_id>>
       ELSE /\ client_calls' = Append(client_calls, "sign_out")
            /\ requests' = IF Falsy(auth_token) THEN requests
                           ELSE Append(requests, "auth/signout")
            /\ IF Falsy(auth_token)
               THEN UNCHANGED <<auth_token, site_id, user_id>>
               ELSE \E resp \in ListingResponses :
                       LET done == sign_out(CurrentSession, resp)
                       IN  /\ auth_token' = done.session.auth_token
                           /\ site_id' = done.session.site_id
                           /\ user_id' = done.session.user_id
    /\ RunClientUnchanged
    /\ UNCHANGED <<tableau_client, authed, all_workbooks, matching_workbooks,
                   target_workbook_id, all_views, views_to_fetch, next_view, sheets,
                   file_written, formatted, emailed, run_error>>
    /\ UNCHANGED pipeVars

NextRun ==
    \/ RunAuthenticate
    \/ RunFindWorkbooks
    \/ RunFindViews
    \/ RunView
    \/ RunSave
    \/ RunFormat
    \/ RunEmail
    \/ RunFinally

-----------------------------------------------------------------------------
(* generate_excel_sheets_from_views: routing and the sheet of one view *)

Error_Column == <<"E", "r", "r", "o", "r">>
Could_not_load == <<"C", "o", "u", "l", "d", " ", "n", "o", "t", " ", "l", "o", "a", "d">>

\* the one-row error table of line 342
ErrorRow == <<S(Could_not_load)>>
ErrorTable == [columns |-> <<Error_Column>>, rows |-> <<ErrorRow>>]

\* the result of a branch that calls no staged transform
Passed(df) ==
    [cleaned |-> NoFrame, pivoted |-> NoFrame, sorted |-> NoFrame, final |-> df,
     raised |-> FALSE]

\* lines 322-331: the transform a view's table goes through
Route(view, raw) ==
    IF view.viewUrlName = PROGRESS_REPORT_VIEW_URL_NAME
    THEN [name |-> "progress", out |-> process_progress_report_data(raw)]
    ELSE IF view.viewUrlName = ADMIT_BREAKDOWN_VIEW_URL_NAME
    THEN [name |-> "admit", out |-> process_admit_breakdown_data(raw)]
    ELSE IF view.viewUrlName = RAW_DATA_VIEW_URL_NAME
    THEN [name |-> "raw", out |-> Passed(process_raw_data_applicant_download(raw))]
    ELSE [name |-> "unchanged", out |-> Passed(raw)]

\* lines 333-338: what to_excel is given for processed_df; an empty table is
\* replaced by pd.DataFrame(), which has neither rows nor columns
SheetTable(processed_df) == IF IsEmpty(processed_df) THEN EmptyFrame(<<>>) ELSE processed_df

NoView == View(None, <<>>, <<>>)
NoSheet == [name |-> <<>>, df |-> NoFrame]

InitAssembly ==
    /\ routed_view = NoView
    /\ written_sheet = NoSheet

\* One turn of the loop for a view whose CSV was fetched and parsed into
\* df_raw: the table is routed, and the result, or the error table when the
\* transform raised, is written.
ProcessView(view) ==
    /\ report = "none"
    /\ ~Falsy(view.id)
    /\ view.viewUrlName # <<>>
    /\ routed_view' = view
    /\ \E r \in {Route(view, df_raw)}, sheet_name \in {SheetNameOf(view.viewUrlName)} :
           /\ report' = r.name
           /\ df_cleaned' = r.out.cleaned
           /\ df_pivoted' = r.out.pivoted
           /\ df_sorted' = r.out.sorted
           /\ final_df' = r.out.final
           /\ raised' = r.out.raised
           /\ written_sheet' = IF r.out.raised
                               THEN [name |-> ErrorSheetName(sheet_name), df |-> ErrorTable]
                               ELSE [name |-> sheet_name, df |-> SheetTable(r.out.final)]
    /\ UNCHANGED df_raw
    /\ UNCHANGED <<rawVars, keyVars, clientVars, runVars>>

NextAssembly ==
    \/ AddRow
    \/ \E view \in ServerViews : ProcessView(view)

-----------------------------------------------------------------------------
(* get_sort_keys on terms put together from words *)

Summer_Mixed == <<"S", "u", "m", "m", "e", "r">>
fall_lower == <<"f", "a", "l", "l">>
WINTER == <<"W", "I", "N", "T", "E", "R">>
Grand == <<"G", "r", "a", "n", "d">>
Year_2025 == <<"2", "0", "2", "5">>
Year_2026 == <<"2", "0", "2", "6">>
Space == <<" ">>

\* the words a term is put together from
TermWords ==
    {SPRING, Summer_Mixed, fall_lower, WINTER, Year_2025, Year_2026, Grand, Total, Space}

MaxWords == 2

\* the words separated by one space each
RECURSIVE JoinWords(_)
JoinWords(words) ==
    IF words = <<>> THEN <<>>
    ELSE IF Len(words) = 1 THEN words[1]
    ELSE words[1] \o <<" ">> \o JoinWords(Tail(words))

NoKeys == <<>>

InitSortKeys ==
    /\ term_words = <<>>
    /\ term_str = S(<<>>)
    /\ sort_keys = NoKeys

\* one more word at the end of the term
ExtendTerm(word) ==
    /\ sort_keys = NoKeys
    /\ ~IsNa(term_str)
    /\ Len(term_words) < MaxWords
    /\ term_words' = Append(term_words, word)
    /\ term_str' = S(JoinWords(Append(term_words, word)))
    /\ UNCHANGED sort_keys
    /\ UNCHANGED <<frameVars, rawVars, asmVars, clientVars, runVars>>

\* the term cell of a row is missing
TermMissing ==
    /\ sort_keys = NoKeys
    /\ term_words = <<>>
    /\ ~IsNa(term_str)
    /\ term_str' = NaN
    /\ UNCHANGED <<term_words, sort_keys>>
    /\ UNCHANGED <<frameVars, rawVars, asmVars, clientVars, runVars>>

\* line 116: get_sort_keys applied to the term
ApplySortKeys ==
    /\ sort_keys = NoKeys
    /\ sort_keys' = get_sort_keys(term_str)
    /\ UNCHANGED <<term_words, term_str>>
    /\ UNCHANGED <<frameVars, rawVars, asmVars, clientVars, runVars>>

NextSortKeys == (\E word \in TermWords : ExtendTerm(word)) \/ TermMissing \/ ApplySortKeys

-----------------------------------------------------------------------------
(* Specifications *)

Init == InitPipeline /\ InitRaw /\ InitAssembly /\ InitSortKeys /\ InitClient /\ InitRun

\* the transform pipeline on every source frame of at most MaxRows rows
SpecPipeline == Init /\ [][NextPipeline]_vars

\* the raw-data transform on every export of at most MaxRawColumns columns
\* and MaxRows rows
SpecRaw == Init /\ [][NextRaw]_vars

\* one view of the assembly loop: every source frame routed by every view
SpecAssembly == Init /\ [][NextAssembly]_vars

\* get_sort_keys on every term of at most MaxWords words
SpecSortKeys == Init /\ [][NextSortKeys]_vars

\* the client under every sequence of method calls and server answers
SpecClient == Init /\ [][NextClient]_vars

\* one run of the workflow under every answer of the server and every outcome
\* of a view
SpecRun == Init /\ [][NextRun]_vars

\* the run under the scheduling of a single thread: a step that can be taken
\* is taken
SpecRunFair == SpecRun /\ WF_vars(NextRun)

Next == NextPipeline \/ NextRaw \/ NextAssembly \/ NextSortKeys \/ NextClient \/ NextRun
Spec == Init /\ [][Next]_vars

-----------------------------------------------------------------------------
(* Properties of the transform pipeline (SpecPipeline) *)

\* a transform has run and returned a frame
Transformed == report # "none" /\ ~raised

\* the sort+subtotal stage has run: the pivot stage returned a non-empty frame
Subtotalled == Transformed /\ ~IsEmpty(df_pivoted)

TermOf(df, i) == Cell(df, df.rows[i], Application_Term)

\* the positions of the rows of df whose term is t
RowsOfTerm(df, t) == {i \in 1..Len(df.rows) : TermOf(df, i) = t}

MinOf(set) == CHOOSE x \in set : \A y \in set : x <= y
MaxOf(set) == CHOOSE x \in set : \A y \in set : y <= x

\* C1: when the pivoted frame is non-empty and has no "Grand Total" row, the
\* grand-total row of the sort+subtotal output holds, in every subtotal
\* column, the sum of that column over the rows of the pivoted frame (the data
\* rows before any subtotal row exists), however many terms there are.
C1_GrandTotalSumsDataRows ==
    (Subtotalled /\ ~HasGrandTotal(df_pivoted)) =>
        \A i \in 1..Len(final_df.rows) :
            TermOf(final_df, i) = S(Grand_Total) =>
                /\ i = Len(final_df.rows)
                /\ \A k \in 1..Len(SettingsOf(report).subtotal_cols) :
                      LET c == SettingsOf(report).subtotal_cols[k]
                      IN  Cell(final_df, final_df.rows[i], c)
                              = I(ColumnSum(df_pivoted, df_pivoted.rows, c))

\* C1 witness: two different terms, no "Grand Total" in the pivoted frame, and
\* a grand-total row whose Submitted Applicants is the non-zero sum.
C1_Witness ==
    /\ Subtotalled
    /\ ~HasGrandTotal(df_pivoted)
    /\ \E i, j \in 1..Len(df_pivoted.rows) :
          /\ ~IsNa(TermOf(df_pivoted, i))
          /\ ~IsNa(TermOf(df_pivoted, j))
          /\ TermOf(df_pivoted, i) # TermOf(df_pivoted, j)
    /\ TermOf(final_df, Len(final_df.rows)) = S(Grand_Total)
    /\ Cell(final_df, final_df.rows[Len(final_df.rows)], Submitted_Applicants).n > 0

\* C2: every non-empty frame a transform returns has exactly one row whose
\* term is "Grand Total", and it is the last row.
C2_ExactlyOneGrandTotalLast ==
    (Transformed /\ ~IsEmpty(final_df)) =>
        /\ Cardinality(RowsOfTerm(final_df, S(Grand_Total))) = 1
        /\ TermOf(final_df, Len(final_df.rows)) = S(Grand_Total)

\* C3: for each term of the data rows other than "Grand Total", the output
\* holds that term's data rows in one block, in their sorted order, followed
\* at once by one subtotal row: term = the term, Program = "Total", the other
\* index columns "", every subtotal column the sum over that term's data rows.
C3_SubtotalAfterEachTerm ==
    Subtotalled =>
        \A p \in 1..Len(df_sorted.rows) :
            LET t == TermOf(df_sorted, p)
                data == SelectSeq(df_sorted.rows,
                                  LAMBDA r : Cell(df_sorted, r, Application_Term) = t)
                at == RowsOfTerm(final_df, t)
                cfg == SettingsOf(report)
            IN  (~IsNa(t) /\ t # S(Grand_Total)) =>
                    /\ Cardinality(at) = Len(data) + 1
                    /\ MaxOf(at) - MinOf(at) = Len(data)
                    /\ \A k \in 1..Len(data) : final_df.rows[MinOf(at) + k - 1] = data[k]
                    /\ LET sub == final_df.rows[MaxOf(at)]
                       IN  /\ Cell(final_df, sub, Program) = S(Total)
                           /\ Cell(final_df, sub, CURRICULUM) = S(<<>>)
                           /\ Cell(final_df, sub, DEGREE) = S(<<>>)
                           /\ \A k \in 1..Len(cfg.subtotal_cols) :
                                 Cell(final_df, sub, cfg.subtotal_cols[k])
                                   = I(SumInts([j \in 1..Len(data) |->
                                          Cell(df_sorted, data[j], cfg.subtotal_cols[k])]))

\* C3 witness: two terms with data rows, one of them with two data rows whose
\* Submitted Applicants differ from the other term's.
C3_Witness ==
    /\ Subtotalled
    /\ \E i, j, k \in 1..Len(df_sorted.rows) :
          /\ i # j
          /\ ~IsNa(TermOf(df_sorted, i))
          /\ TermOf(df_sorted, i) = TermOf(df_sorted, j)
          /\ TermOf(df_sorted, k) \notin {TermOf(df_sorted, i), NaN, S(Grand_Total)}
          /\ TermOf(df_sorted, i) # S(Grand_Total)
          /\ Cell(df_sorted, df_sorted.rows[k], Submitted_Applicants).n > 0
          /\ Cell(df_sorted, df_sorted.rows[i], Submitted_Applicants).n > 0
    /\ Len(final_df.rows) = Len(df_sorted.rows) + 3

\* year and season rank of the well-formed terms of the source frames
C4_Year(t) == IF t = S(SPRING_2026) THEN 2026 ELSE 2025
C4_Season(t) ==
    IF t \in {S(SPRING_2026), S(SPRING_2025)} THEN 0
    ELSE IF t = S(SUMMER_2025) THEN 1
    ELSE 2
C4_WellFormed ==
    {S(FALL_2025), S(SPRING_2026), S(SPRING_2025), S(SUMMER_2025)}

\* C4: in the sort+subtotal output the rows of each term are contiguous, and
\* rows of well-formed terms appear by year ascending, then Spring < Summer <
\* Fall within a year.
C4_TermsContiguousAndOrdered ==
    Subtotalled =>
        \A i, j \in 1..Len(final_df.rows) :
            i < j =>
                /\ (TermOf(final_df, i) = TermOf(final_df, j)) =>
                       \A k \in i..j : TermOf(final_df, k) = TermOf(final_df, i)
                /\ (TermOf(final_df, i) \in C4_WellFormed
                        /\ TermOf(final_df, j) \in C4_WellFormed) =>
                       \/ C4_Year(TermOf(final_df, i)) < C4_Year(TermOf(final_df, j))
                       \/ /\ C4_Year(TermOf(final_df, i)) = C4_Year(TermOf(final_df, j))
                          /\ C4_Season(TermOf(final_df, i)) <= C4_Season(TermOf(final_df, j))

\* C4 witness: the source terms FALL 2025, SPRING 2026, SUMMER 2025, in that
\* order, come out as SUMMER 2025, FALL 2025, SPRING 2026.
C4_Witness ==
    /\ Subtotalled
    /\ Len(df_raw.rows) = 3
    /\ [i \in 1..3 |-> TermOf(df_raw, i)] = <<S(FALL_2025), S(SPRING_2026), S(SUMMER_2025)>>
    /\ Len(final_df.rows) = 7
    /\ [i \in 1..7 |-> TermOf(final_df, i)]
         = <<S(SUMMER_2025), S(SUMMER_2025), S(FALL_2025), S(FALL_2025),
             S(SPRING_2026), S(SPRING_2026), S(Grand_Total)>>

\* C5: whatever the source frame, the frame a transform returns has exactly
\* the report's final_col_order as its columns, in that order, and every row
\* has one cell per column.
C5_ColumnsAreFinalOrder ==
    Transformed =>
        /\ final_df.columns = SettingsOf(report).final_col_order
        /\ \A i \in 1..Len(final_df.rows) :
              Len(final_df.rows[i]) = Len(SettingsOf(report).final_col_order)

\* C5 witness: a long-form source with a measure that is no final column and
\* without most of the final measures, transformed to a non-empty frame.
C5_Witness ==
    /\ Transformed
    /\ report = "admit"
    /\ df_raw.columns = LongColumns
    /\ \E i \in 1..Len(df_cleaned.rows) :
          Cell(df_cleaned, df_cleaned.rows[i], Measure_Names) = S(Other_Measure)
    /\ ~IsEmpty(final_df)
    /\ final_df.columns = ADMIT_BREAKDOWN_FINAL_COLUMN_ORDER

\* C5 witness for the short circuit: every row removed by cleaning
C5_WitnessEmpty ==
    /\ Transformed
    /\ Len(df_raw.rows) > 0
    /\ IsEmpty(df_cleaned)
    /\ final_df = EmptyFrame(SettingsOf(report).final_col_order)

\* C6 as claimed: after the pivot stage every numeric cell is a non-negative
\* integer.
C6_NumericNonNegative ==
    (Transformed /\ ~IsEmpty(df_cleaned)) =>
        \A i \in 1..Len(df_pivoted.rows) :
            \A k \in 1..Len(SettingsOf(report).numeric_cols) :
                LET v == Cell(df_pivoted, df_pivoted.rows[i], SettingsOf(report).numeric_cols[k])
                IN  v.t = "int" /\ v.n >= 0

\* the integer a source cell stands for
C6_Expected(c) ==
    IF c.t = "int" THEN c.n
    ELSE IF c = S(Txt_1234) THEN 1234
    ELSE IF c = S(Txt_12) THEN 12
    ELSE IF c = S(Txt_7) THEN 7
    ELSE IF c = S(Txt_minus3) THEN 0 - 3
    ELSE 0

\* C6 amended: after the pivot stage every numeric cell is an integer, of
\* either sign; in a wide-form frame it is the source cell's integer, its text
\* parsed with the thousands separators stripped ("1,234" is 1234), 0 for an
\* unparsable text ("N/A") or a missing value, and 0 for a numeric column the
\* source lacks.
C6_NumericAreIntegers ==
    (Transformed /\ ~IsEmpty(df_cleaned)) =>
        \A i \in 1..Len(df_pivoted.rows) :
            \A k \in 1..Len(SettingsOf(report).numeric_cols) :
                LET c == SettingsOf(report).numeric_cols[k]
                    v == Cell(df_pivoted, df_pivoted.rows[i], c)
                IN  /\ v.t = "int"
                    /\ df_raw.columns = WideColumns =>
                          v.n = IF InSeq(c, df_cleaned.columns)
                                THEN C6_Expected(Cell(df_cleaned, df_cleaned.rows[i], c))
                                ELSE 0

\* C6 witness: a wide-form row with "1,234" and "N/A" that the pivot stage
\* turned into 1234 and 0, beside a negative value that stayed negative.
C6_Witness ==
    /\ Transformed
    /\ report = "progress"
    /\ df_raw.columns = WideColumns
    /\ \E i, j \in 1..Len(df_pivoted.rows) :
          /\ Cell(df_cleaned, df_cleaned.rows[i], Submitted_Applicants) = S(Txt_1234)
          /\ Cell(df_cleaned, df_cleaned.rows[i], Enrolled) = S(Txt_NA)
          /\ Cell(df_pivoted, df_pivoted.rows[i], Submitted_Applicants) = I(1234)
          /\ Cell(df_pivoted, df_pivoted.rows[i], Enrolled) = I(0)
          /\ Cell(df_pivoted, df_pivoted.rows[j], Enrolled).n < 0

-----------------------------------------------------------------------------
(* Properties of the client (SpecClient) *)

\* a method that sent a request has run to its end
RequestOver == call = "none" /\ last.response.kind # "none"

SessionIsNull == auth_token = None /\ site_id = None /\ user_id = None

\* C7: when every attempt of a request met a status of the forcelist and the
\* retries are exhausted, the error the method raises carries the status code
\* and the body of the last response.
C7_ExhaustedErrorCarriesStatusAndBody ==
    (/\ RequestOver
     /\ last.method # "sign_out"
     /\ last.response.kind = "http"
     /\ last.response.status \in status_forcelist
     /\ forced = attempts
     /\ attempts = TOTAL_RETRIES + 1) =>
        /\ last.error.type = "TableauAPIError"
        /\ last.error.status_code = {last.response.status}
        /\ last.error.response_text = last.response.text

\* C8: a request whose first k attempts each met a status of the forcelist,
\* k <= TOTAL_RETRIES, and whose next attempt met 200 is over after exactly
\* k+1 attempts and raises no request error; while only forcelist statuses
\* have come in, the request goes on until TOTAL_RETRIES + 1 attempts are made.
C8_SuccessAfterRetries ==
    /\ (/\ RequestOver
        /\ last.response.kind = "http"
        /\ last.response.status = 200
        /\ forced = attempts - 1) =>
           /\ forced <= TOTAL_RETRIES
           /\ last.error.type # "TableauAPIError"
              \/ (last.method = "authenticate" /\ last.response.body.json
                    /\ (Falsy(last.response.body.token) \/ Falsy(last.response.body.site)))
           /\ last.method # "authenticate" => last.error = NoError
    /\ (call # "none" /\ forced = attempts) =>
           /\ attempts <= TOTAL_RETRIES
           /\ retry_total = TOTAL_RETRIES - attempts
    /\ (RequestOver /\ forced = attempts) => attempts = TOTAL_RETRIES + 1

\* C8 witness: three 503-class responses, then 200: the method returned after
\* four attempts with no error.
C8_Witness ==
    /\ RequestOver
    /\ last.method = "get_view_data_csv"
    /\ last.response.status = 200
    /\ forced = 3
    /\ attempts = 4
    /\ last.error = NoError

\* C9: as long as no authenticate call has returned successfully, auth_token,
\* site_id and user_id are all None.
C9_NullUntilAuthenticated == ~authed => SessionIsNull

\* C10: once a sign_out call has returned, auth_token, site_id and user_id are
\* all None.
C10_NullAfterSignOut == (call = "none" /\ last.method = "sign_out") => SessionIsNull

\* C11: sign_out sends its request exactly when a token is held and returns
\* normally however the request ends: success, an HTTP error status, a failed
\* connection or a timeout.
C11_SignOutNeverRaises ==
    /\ call = "sign_out" => ~Falsy(auth_token)
    /\ (call = "none" /\ last.method = "sign_out") =>
          /\ last.error = NoError
          /\ last.response.kind = "none" => Falsy(auth_token)

\* C11 witness: a sign_out whose request timed out on every attempt returned
\* normally.
C11_Witness ==
    /\ RequestOver
    /\ last.method = "sign_out"
    /\ last.response.kind = "read_timeout"
    /\ attempts = TOTAL_RETRIES + 1
    /\ last.error = NoError

AuthenticatedMethods == Methods \ {"authenticate", "sign_out"}

\* no authenticate call has returned successfully yet, or the last call that
\* returned was a sign_out
NoValidSession == ~authed \/ last.method = "sign_out"

\* C12: called without a valid session, each authenticated method (and the two
\* find methods built on them) raises the "Authentication required" error
\* (status code 401), has no request in flight or sent, and leaves auth_token,
\* site_id and user_id as they were.
C12_RefusedWithoutSession ==
    /\ [](NoValidSession =>
            /\ call \notin AuthenticatedMethods
            /\ \A m \in AuthenticatedMethods : NotAuthenticated(m, CurrentSession))
    /\ [][(/\ NoValidSession
           /\ call = "none"
           /\ last'.method \in AuthenticatedMethods
           /\ last' # last) =>
              /\ call' = "none"
              /\ last'.error = TableauAPIError({401}, None)
              /\ last'.response = NoResponse
              /\ attempts' = 0
              /\ UNCHANGED <<auth_token, site_id, user_id>>]_vars

\* C12 witness: after a successful authenticate and a sign_out,
\* get_view_data_csv was refused and the session is still empty.
C12_Witness ==
    /\ call = "none"
    /\ authed
    /\ last.method = "get_view_data_csv"
    /\ last.response = NoResponse
    /\ last.error = TableauAPIError({401}, None)
    /\ SessionIsNull


-----------------------------------------------------------------------------
(* Report assembly and the workflow *)

AssemblyLeft == pc \in {"save", "format", "email", "finally", "done"} /\ views_to_fetch # <<>>

IsErrorSheet(sheet) == Len(sheet.name) >= Len(ERROR_) /\ Take(sheet.name, Len(ERROR_)) = ERROR_

\* C13: a failure while fetching, parsing, transforming or writing one view is
\* caught inside report assembly: the one-row error table is written under
\* ERROR_<truncated sheet name>, every later view of the list is still
\* processed, and report assembly does not raise.
C13_FailureStaysInsideAssembly ==
    /\ pc = "assembly" => run_error = "none"
    /\ AssemblyLeft => next_view = Len(views_to_fetch) + 1
    /\ \A i \in 1..Len(sheets) : IsErrorSheet(sheets[i]) => sheets[i].content = "error"

DiscoveryOrData == {"workbooks", "views", "data"}

NothingProduced ==
    /\ sheets = <<>>
    /\ ~file_written
    /\ ~formatted
    /\ emailed = "no"

\* C18: if authenticate fails the run terminates: no workbook or view
\* discovery request is issued, no view data is fetched, no spreadsheet is
\* written or formatted and no email is sent.
C18_AuthFailureEndsRun ==
    (pc # "authenticate" /\ ~authed) =>
        /\ pc \in {"finally", "done"}
        /\ run_error # "none"
        /\ \A i \in 1..Len(requests) : requests[i] \notin DiscoveryOrData
        /\ views_to_fetch = <<>>
        /\ NothingProduced

\* the sign-in failed and the run is over with the sign-in as its only request
C18_Witness ==
    /\ pc = "done"
    /\ ~authed
    /\ run_error = "TableauAPIError"
    /\ requests = <<"auth/signin">>
    /\ NothingProduced

\* C19: when find_matching_workbooks returns an empty list the run ends
\* without an error: no view is looked up or fetched, no spreadsheet is
\* written and no email is sent.
C19_NoWorkbookEndsRunQuietly ==
    matching_workbooks = {<<>>} =>
        /\ pc \in {"finally", "done"}
        /\ run_error = "none"
        /\ \A i \in 1..Len(requests) : requests[i] \notin {"views", "data"}
        /\ views_to_fetch = <<>>
        /\ NothingProduced

\* the server listed two workbooks, neither matched, and the run is over
C19_Witness ==
    /\ pc = "done"
    /\ Len(all_workbooks) = 2
    /\ matching_workbooks = {<<>>}
    /\ run_error = "none"
    /\ requests = <<"auth/signin", "workbooks", "auth/signout">>
    /\ NothingProduced

\* the workbook is of the target project and its name has the filter text in it
C20_Matches(wb) ==
    /\ wb.project = {TARGET_PROJECT_NAME}
    /\ wb.has_name
    /\ \E i \in 0..Len(wb.name), j \in 1..(Len(wb.name) + 1) :
          SubSeq(wb.name, 1, i) \o TARGET_WORKBOOK_NAME_CONTAINS
              \o SubSeq(wb.name, j, Len(wb.name)) = wb.name

\* found is the matching workbooks of all, in the order of all
C20_IsMatchingSubset(found, all) ==
    LET idx == {i \in 1..Len(all) : C20_Matches(all[i])}
        nth(k) == CHOOSE i \in idx : Cardinality({j \in idx : j <= i}) = k
    IN  /\ Len(found) = Cardinality(idx)
        /\ \A k \in 1..Len(found) : found[k] = all[nth(k)]

\* C20: find_matching_workbooks returns exactly the workbooks of the server
\* response whose project name equals the project name asked for and whose
\* name contains the filter text, in the order of the response; with no match
\* it returns an empty list and raises no error.
C20_FindWorkbooksFilters ==
    \A found \in matching_workbooks :
        /\ C20_IsMatchingSubset(found, all_workbooks)
        /\ run_error = "none"

\* of a workbook of another project and one whose name has the filter text in
\* its middle, the second alone is returned
C20_Witness ==
    /\ Len(all_workbooks) = 2
    /\ all_workbooks[1].project = {Project_Finance}
    /\ all_workbooks[2].name = Name_Old_Pipeline
    /\ matching_workbooks = {<<all_workbooks[2]>>}


-----------------------------------------------------------------------------
(* The pivot, clean and raw-data stages *)

Pivoted ==
    /\ Transformed
    /\ ~IsEmpty(df_cleaned)
    /\ InSeq(SettingsOf(report).agg_col, df_cleaned.columns)
    /\ InSeq(SettingsOf(report).values_col, df_cleaned.columns)

IndexTuples(df) == {RowKey(df, df.rows[i], SettingsOf(report).index_cols) : i \in 1..Len(df.rows)}

\* the value column summed over the rows of df with index tuple k and category cat
C14_Sum(df, k, cat) ==
    LET cfg == SettingsOf(report)
        g == SelectSeq(df.rows, LAMBDA r : /\ RowKey(df, r, cfg.index_cols) = k
                                           /\ Cell(df, r, cfg.agg_col) = S(cat))
    IN  SumInts([j \in 1..Len(g) |-> ToInt(Cell(df, g[j], cfg.values_col))])

\* C14: with both pivot columns present, the pivot stage outputs one row per
\* distinct index tuple of the cleaned rows, and each category column of that
\* row holds the sum of the value column over the cleaned rows of that index
\* tuple and category, 0 when there is none.
C14_PivotOneRowPerTupleWithSums ==
    Pivoted =>
        LET cfg == SettingsOf(report)
        IN  /\ IndexTuples(df_pivoted) = IndexTuples(df_cleaned)
            /\ Len(df_pivoted.rows) = Cardinality(IndexTuples(df_cleaned))
            /\ \A i \in 1..Len(df_pivoted.rows) : \A j \in 1..Len(df_pivoted.columns) :
                  LET c == df_pivoted.columns[j]
                  IN  ~InSeq(c, cfg.index_cols) =>
                         df_pivoted.rows[i][j] =
                            I(C14_Sum(df_cleaned,
                                      RowKey(df_pivoted, df_pivoted.rows[i], cfg.index_cols), c))

\* a cell whose text, trimmed and case-folded, is the trimmed, case-folded match string
C15_CellMatches(c, match) == Lower(Strip(AsStr(c))) = Lower(Strip(match))

C15_RowIsClean(r, match) == \A j \in 1..Len(r) : ~C15_CellMatches(r[j], match)

\* C15: after the clean stage no row contains a cell whose trimmed,
\* case-folded value equals the trimmed, case-folded match string, and every
\* input row without such a cell is kept, in its original relative order.
C15_CleanRemovesExactlyMatchingRows ==
    report # "none" =>
        LET cfg == SettingsOf(report)
            source == DropColumns(df_raw, cfg.drop_cols).rows
        IN  /\ \A i \in 1..Len(df_cleaned.rows) :
                  C15_RowIsClean(df_cleaned.rows[i], cfg.remove_row_string)
            /\ df_cleaned.rows =
                  SelectSeq(source, LAMBDA r : C15_RowIsClean(r, cfg.remove_row_string))

\* a row with " ALL " in one cell was removed although the match string is
\* "All", and the rows around it were kept
C15_Witness ==
    /\ report # "none"
    /\ Len(df_raw.rows) = 3
    /\ Cell(df_raw, df_raw.rows[2], Program) = S(Prog_all)
    /\ Len(df_cleaned.rows) = 2
    /\ Cell(df_cleaned, df_cleaned.rows[1], Program) # Cell(df_cleaned, df_cleaned.rows[2], Program)

\* the columns of the selection list that df has, in list order
C16_ListedPresent(df) ==
    SelectSeq(RAW_DATA_FINAL_COLUMN_SELECTION_ORDER, LAMBDA c : InSeq(c, df.columns))

\* the rows of the source, unchanged in number, order and content
C16_RowsKept ==
    /\ Len(raw_result.rows) = Len(raw_source.rows)
    /\ \A i \in 1..Len(raw_result.rows) : \A j \in 1..Len(raw_result.columns) :
          /\ InSeq(raw_result.columns[j], raw_source.columns)
          /\ raw_result.rows[i][j] = Cell(raw_source, raw_source.rows[i], raw_result.columns[j])

\* C16 as stated: for every input table the raw-data transform returns exactly
\* the columns of the selection list present in the source, in list order, and
\* the rows unchanged in number and order.
C16_ExactlyListedColumns ==
    raw_called =>
        /\ raw_result.columns = C16_ListedPresent(raw_source)
        /\ C16_RowsKept

\* C16, amended: when the source has at least one column of the selection
\* list, the result has exactly the listed columns present in the source, in
\* list order; when it has none, the result is the source without the columns
\* of the drop list, unlisted columns included; rows are unchanged in number
\* and order in both cases.
C16_ListedColumnsUnlessNonePresent ==
    raw_called =>
        /\ C16_ListedPresent(raw_source) # <<>> =>
              raw_result.columns = C16_ListedPresent(raw_source)
        /\ C16_ListedPresent(raw_source) = <<>> =>
              raw_result.columns =
                  SelectSeq(raw_source.columns, LAMBDA c : ~InSeq(c, RAW_DATA_DROP_COLUMNS))
        /\ C16_RowsKept

\* an export with an unlisted column and two listed ones in another order than
\* the list's, a third listed one missing; the result has the two, reordered
C16_Witness ==
    /\ raw_called
    /\ raw_source.columns = <<Extra_Column, RAW_DATA_FINAL_COLUMN_SELECTION_ORDER[2],
                              RAW_DATA_FINAL_COLUMN_SELECTION_ORDER[1]>>
    /\ Len(raw_source.rows) = 2
    /\ raw_result.columns = <<RAW_DATA_FINAL_COLUMN_SELECTION_ORDER[1],
                              RAW_DATA_FINAL_COLUMN_SELECTION_ORDER[2]>>
    /\ Len(raw_result.rows) = 2


-----------------------------------------------------------------------------
(* Retries and the errors of the client *)

ErrorSurfaced == call = "none" /\ last.error.type = "TableauAPIError"

\* C17 as stated: the client surfaces an API error only after the retry
\* policy is exhausted, that is only after 1 + TOTAL_RETRIES attempts of the
\* request, and never makes more attempts than that.
C17_ErrorOnlyAfterExhaustion ==
    /\ attempts <= TOTAL_RETRIES + 1
    /\ ErrorSurfaced => attempts = TOTAL_RETRIES + 1

\* C17, amended: no request is attempted more than 1 + TOTAL_RETRIES times; an
\* API error whose last attempt met a forcelist status or a connection or
\* timeout failure surfaces only after exactly 1 + TOTAL_RETRIES attempts; an
\* error status outside the forcelist surfaces with the attempt that received
\* it; the not-authenticated error surfaces with no attempt made; a 200
\* response surfaces an error only from authenticate.
C17_ErrorAfterExhaustionOrAtOnce ==
    /\ attempts <= TOTAL_RETRIES + 1
    /\ ErrorSurfaced =>
          IF last.response.kind = "none"
          THEN attempts = 0 /\ last.error.status_code = {401}
          ELSE IF last.response.kind # "http" \/ last.response.status \in status_forcelist
          THEN attempts = TOTAL_RETRIES + 1
          ELSE /\ attempts >= 1
               /\ IF IsErrorStatus(last.response.status)
                  THEN last.error.status_code = {last.response.status}
                  ELSE last.method = "authenticate"

\* four connection failures in a row: the error surfaces after the fourth
C17_Witness ==
    /\ ErrorSurfaced
    /\ last.method = "get_views_for_workbook"
    /\ last.response.kind = "connection_error"
    /\ attempts = TOTAL_RETRIES + 1


-----------------------------------------------------------------------------
(* The sheet of one view *)

Routed == routed_view # NoView

\* C21: the sheet written for a view that the progress-report or the
\* admit-breakdown transform processed without error has one header row
\* whose columns are that report's final column order, also when the
\* transformed table has no data rows.
C21_SheetHasFinalHeader ==
    (Routed /\ report \in {"progress", "admit"} /\ ~raised) =>
        /\ written_sheet.name = SheetNameOf(routed_view.viewUrlName)
        /\ written_sheet.df.columns = SettingsOf(report).final_col_order

\* the table a view's url name alone assigns to the parsed table
C22_Expected(url, raw) ==
    IF url = PROGRESS_REPORT_VIEW_URL_NAME THEN process_progress_report_data(raw)
    ELSE IF url = ADMIT_BREAKDOWN_VIEW_URL_NAME THEN process_admit_breakdown_data(raw)
    ELSE IF url = RAW_DATA_VIEW_URL_NAME THEN Passed(process_raw_data_applicant_download(raw))
    ELSE Passed(raw)

\* C22: report assembly routes each view by its viewUrlName alone: the
\* progress-report url name to the progress-report transform, the
\* admit-breakdown url name to the admit-breakdown transform, the raw-data url
\* name to the raw-data transform, and any other url name to no transform, in
\* which case the parsed table is written unmodified.
C22_RoutedByUrlName ==
    Routed =>
        LET url == routed_view.viewUrlName
            known == {PROGRESS_REPORT_VIEW_URL_NAME, ADMIT_BREAKDOWN_VIEW_URL_NAME,
                      RAW_DATA_VIEW_URL_NAME}
        IN  /\ raised = C22_Expected(url, df_raw).raised
            /\ final_df = C22_Expected(url, df_raw).final
            /\ (url \notin known) =>
                  /\ report = "unchanged"
                  /\ written_sheet.df = df_raw

-----------------------------------------------------------------------------
(* The sort key of a term *)

KeysComputed == sort_keys # NoKeys

\* the words of the term that are not blank
C23_Words == SelectSeq(term_words, LAMBDA w : w # Space)

\* the rank the claim gives a term name: Spring 0, Summer 1, Fall 2
C23_Rank(word) ==
    IF word = SPRING THEN I(0)
    ELSE IF word = Summer_Mixed THEN I(1)
    ELSE IF word = fall_lower THEN I(2)
    ELSE Inf

C23_YearOf(word) ==
    IF word = Year_2025 THEN I(2025)
    ELSE IF word = Year_2026 THEN I(2026)
    ELSE Inf

C23_NoTerm == IsNa(term_str) \/ C23_Words = <<>> \/ term_words = <<Grand, Total>>

C23_Year == IF Len(C23_Words) > 1 THEN C23_YearOf(C23_Words[Len(C23_Words)]) ELSE Inf

\* C23 as amended: the sort key of a term is (year, termRank); termRank is
\* Spring = 0, Summer = 1, Fall = 2 for the first word of the term in any
\* letter case and +infinity for any other first word; year is the number the
\* last word stands for when the term has at least two words and +infinity
\* otherwise; a term that is missing, blank or exactly "Grand Total" gets
\* (+infinity, +infinity). An unknown term name with a year keeps its year.
C23_KeyIsYearThenRank ==
    KeysComputed =>
        IF C23_NoTerm THEN sort_keys = <<Inf, Inf>>
        ELSE sort_keys = <<C23_Year, C23_Rank(C23_Words[1])>>

\* an unknown term name with a year has been given its key
C23_Witness ==
    /\ term_words = <<WINTER, Year_2025>>
    /\ sort_keys = <<I(2025), Inf>>

\* C23: the sort key computed from the term column is (year, termRank) with
\* Spring = 0, Summer = 1, Fall = 2, and every term that is blank, is
\* "Grand Total" or has an unknown term name gets the key
\* (+infinity, +infinity).
C23_UnknownTermsGetInfinity ==
    KeysComputed =>
        IF C23_NoTerm THEN sort_keys = <<Inf, Inf>>
        ELSE IF C23_Rank(C23_Words[1]) = Inf THEN sort_keys = <<Inf, Inf>>
        ELSE sort_keys = <<C23_Year, C23_Rank(C23_Words[1])>>

-----------------------------------------------------------------------------
(* A "Grand Total" row in the table entering the sort+subtotal stage *)

\* the rows of df whose term is "Grand Total", in order
GrandTotalRows(df) ==
    SelectSeq(df.rows, LAMBDA r : Cell(df, r, Application_Term) = S(Grand_Total))

\* C24: when the table entering the sort+subtotal stage already holds a row
\* whose term is "Grand Total", that row passes through with its values
\* unchanged, no subtotal row is generated for it, and no further grand-total
\* row is appended: the "Grand Total" rows of the output are those of the
\* input, in the columns of the final column order.
C24_GrandTotalPassesThrough ==
    (Subtotalled /\ HasGrandTotal(df_pivoted)) =>
        LET cols == SettingsOf(report).final_col_order
        IN  /\ GrandTotalRows(final_df) = GrandTotalRows(df_sorted)
            /\ Len(GrandTotalRows(final_df)) = Len(GrandTotalRows(df_pivoted))
            /\ \A i \in 1..Len(df_pivoted.rows) :
                  TermOf(df_pivoted, i) = S(Grand_Total) =>
                      \E j \in 1..Len(final_df.rows) :
                          \A k \in 1..Len(cols) :
                              InSeq(cols[k], df_pivoted.columns) =>
                                  Cell(final_df, final_df.rows[j], cols[k])
                                      = Cell(df_pivoted, df_pivoted.rows[i], cols[k])

\* C24 witness: the pivoted frame holds a "Grand Total" row and a row of a
\* term, the output has the subtotal of the term and the one "Grand Total"
\* row with the values it came with.
C24_Witness ==
    /\ Subtotalled
    /\ Len(GrandTotalRows(df_pivoted)) = 1
    /\ \E i \in 1..Len(df_pivoted.rows) : TermOf(df_pivoted, i) = S(FALL_2025)
    /\ \E j \in 1..Len(final_df.rows) :
          /\ TermOf(final_df, j) = S(FALL_2025)
          /\ Cell(final_df, final_df.rows[j], Program) = S(Total)
    /\ Len(GrandTotalRows(final_df)) = 1
    /\ Cell(final_df, GrandTotalRows(final_df)[1], Submitted_Applicants) = I(20)

-----------------------------------------------------------------------------
(* Grand total against the subtotals *)

\* the subtotal rows of df: Program is "Total" and the term is not "Grand Total"
SubtotalRows(df) ==
    SelectSeq(df.rows, LAMBDA r : /\ Cell(df, r, Program) = S(Total)
                                  /\ Cell(df, r, Application_Term) # S(Grand_Total))

\* C25: in every output of the sort+subtotal stage the grand-total row equals,
\* in each subtotal column, the sum of all subtotal rows of that output; a
\* table with a single term gets one subtotal row and one grand-total row with
\* equal numeric values.
C25_GrandTotalIsSumOfSubtotals ==
    Subtotalled =>
        \A i \in 1..Len(final_df.rows) :
            TermOf(final_df, i) = S(Grand_Total) =>
                \A k \in 1..Len(SettingsOf(report).subtotal_cols) :
                    LET c == SettingsOf(report).subtotal_cols[k]
                    IN  Cell(final_df, final_df.rows[i], c)
                            = I(ColumnSum(final_df, SubtotalRows(final_df), c))

-----------------------------------------------------------------------------
(* Conservation of totals *)

\* the value column summed over all rows of df of category cat
C26_CategorySum(df, cat) ==
    LET cfg == SettingsOf(report)
        g == SelectSeq(df.rows, LAMBDA r : Cell(df, r, cfg.agg_col) = S(cat))
    IN  SumInts([j \in 1..Len(g) |-> ToInt(Cell(df, g[j], cfg.values_col))])

\* C26: the pipeline conserves totals end to end: for each measure category
\* listed in the subtotal columns, the grand-total value of the final table
\* equals the sum of the value column over all cleaned input rows of that
\* category, rows whose term or another index column is empty or missing
\* included; no cleaned input row is left out of the output.
C26_TotalsConserved ==
    Pivoted =>
        \E i \in 1..Len(final_df.rows) :
            /\ TermOf(final_df, i) = S(Grand_Total)
            /\ \A k \in 1..Len(SettingsOf(report).subtotal_cols) :
                  LET c == SettingsOf(report).subtotal_cols[k]
                  IN  Cell(final_df, final_df.rows[i], c)
                          = I(C26_CategorySum(df_cleaned, c))

-----------------------------------------------------------------------------
(* Sheets against view descriptors *)

\* C27: every view descriptor in the list given to report assembly results in
\* exactly one written sheet, either its data sheet or its ERROR_ sheet, so
\* the number of sheets written equals the number of view descriptors and no
\* view is left without a sheet.
C27_OneSheetPerView ==
    (AssemblyLeft /\ next_view = Len(views_to_fetch) + 1) =>
        /\ Len(sheets) = Len(views_to_fetch)
        /\ \A i \in 1..Len(sheets) :
              LET sheet_name == SheetNameOf(views_to_fetch[i].viewUrlName)
              IN  sheets[i].name \in {sheet_name, ErrorSheetName(sheet_name)}

-----------------------------------------------------------------------------
(* The session authenticate accepts *)

\* C28: after an authenticate call has returned successfully and until
\* sign_out is called, none of get_workbooks_for_user, get_views_for_workbook
\* and get_view_data_csv fails with the not-authenticated error: the session
\* that authenticate accepts passes the guard of every authenticated method.
C28_AcceptedSessionPassesGuards ==
    (call = "none" /\ last.method = "authenticate" /\ last.error = NoError) =>
        \A m \in AuthenticatedMethods : ~NotAuthenticated(m, CurrentSession)

-----------------------------------------------------------------------------
(* The end of a run *)

SignOutCalls == Cardinality({i \in 1..Len(client_calls) : client_calls[i] = "sign_out"})

\* C29: in every run in which the client was constructed, whether the run
\* succeeds, returns early or fails at any step, sign_out is invoked exactly
\* once, as the last client operation, and no request to the server is issued
\* after it: every run comes to its end, at the end of a run with a client
\* sign_out is the last of the client calls and the only one of its name, and
\* once it has been called neither a call nor a request follows.
C29_SignOutOnceAndLast ==
    /\ [](SignOutCalls <= 1)
    /\ []((tableau_client /\ pc = "done") =>
             /\ SignOutCalls = 1
             /\ client_calls[Len(client_calls)] = "sign_out")
    /\ [][SignOutCalls = 1 => UNCHANGED <<client_calls, requests>>]_vars
    /\ <>(pc = "done")

\* C29 witness: a run that failed while saving the workbook has ended, and
\* its last client call and last request are the sign-out.
C29_Witness ==
    /\ pc = "done"
    /\ run_error = "IOError"
    /\ SignOutCalls = 1
    /\ client_calls[Len(client_calls)] = "sign_out"
    /\ requests[Len(requests)] = "auth/signout"

-----------------------------------------------------------------------------
(* The report email *)

DataRequests(reqs) == Cardinality({i \in 1..Len(reqs) : reqs[i] = "data"})

\* C30: the report email is sent at most once per run, and only after every
\* view has been processed one at a time (each view's sheet written before the
\* next view is fetched), the spreadsheet has been written and the formatting
\* step has completed without error; if writing the spreadsheet or formatting
\* it fails no email is sent.
C30_EmailOnceAfterEverything ==
    /\ [](emailed = "sent" =>
             /\ views_to_fetch # <<>>
             /\ next_view = Len(views_to_fetch) + 1
             /\ file_written
             /\ formatted
             /\ run_error = "none")
    /\ [](run_error # "none" => emailed = "no")
    /\ [][emailed' # emailed => (pc = "email" /\ emailed = "no" /\ pc' = "finally")]_vars
    /\ [](DataRequests(requests) <= Len(sheets))
    /\ [][DataRequests(requests') # DataRequests(requests) =>
             /\ DataRequests(requests') = DataRequests(requests) + 1
             /\ Len(sheets') > Len(sheets)
             /\ next_view' = next_view + 1]_vars

\* C30 witness: two views were fetched and written in turn, the workbook was
\* saved and formatted, the email was sent and the run is over.
C30_Witness ==
    /\ pc = "done"
    /\ emailed = "sent"
    /\ Len(views_to_fetch) = 2
    /\ DataRequests(requests) = 2
    /\ Len(sheets) = 2
    /\ file_written
    /\ formatted

=============================================================================
